---- MODULE Spec2Model ----
(***************************************************************************)
(* A model of the criteria-pattern library: the operator catalog           *)
(* (filter_operator.py), the Criteria expression tree (criteria.py), the   *)
(* raw SQL converter (converter/sql_converter.py) and the in-memory        *)
(* evaluator (parser.py).                                                  *)
(*                                                                         *)
(* Encoding.  A Python value is a record [t, i, s, l]: t is its type,      *)
(* i the number of an int, s the characters of a str, l the elements of a  *)
(* list or tuple (ints).  A text is a sequence of tokens: Txt(s) is the    *)
(* literal text s, Placeholder(n) is the text '%(parameter_<n>)s'.  The    *)
(* parameter dict is a function whose domain is the set of n for which it  *)
(* has the key 'parameter_<n>'.  A call that raises yields a record whose  *)
(* err field names the exception.                                          *)
(***************************************************************************)
EXTENDS Integers, Sequences, FiniteSets, TLC

VARIABLES
    criteria,   \* the Criteria object built so far (NoCriteria: construction raised)
    opname,     \* the FilterOperator attribute name the first filter was built with
    pc,         \* "build" | "raised" | "converted" | "validated"
    call,       \* the arguments of the backend call made
    result,     \* what the backend call returned or raised
    threads,    \* per thread calling convert: its frames and what it last returned
    heap        \* the Criteria objects that exist, by identity

vars == <<criteria, opname, pc, call, result, threads, heap>>

\* ------------------------------------------------------------- bounds

\* Combinator applications (&, |, ~) made on one expression.
MaxOps == 2

\* Characters in a field value or a LIKE pattern.
MaxLen == 3

\* ------------------------------------------------------ Python values

PyNone == [t |-> "none", i |-> 0, s |-> <<>>, l |-> <<>>]

PyInt(n) == [t |-> "int", i |-> n, s |-> <<>>, l |-> <<>>]

PyStr(chars) == [t |-> "str", i |-> 0, s |-> chars, l |-> <<>>]

PyList(elems) == [t |-> "list", i |-> 0, s |-> <<>>, l |-> elems]

PyTuple(elems) == [t |-> "tuple", i |-> 0, s |-> <<>>, l |-> elems]

Returned(v) == [err |-> "none", val |-> v]

Raised(e) == [err |-> e]

\* dict.get(key, default)
DictGet(d, key, default) == IF key \in DOMAIN d THEN d[key] ELSE default

\* d[key] = value
DictSet(d, key, value) == (key :> value) @@ d

\* d.pop(key), key present
DictPop(d, key) == [k \in (DOMAIN d) \ {key} |-> d[k]]

\* d.update(other)
DictUpdate(d, other) == other @@ d

\* ---------------------------------------------------- operator catalog

\* The attribute names of FilterOperator, in definition order.
OperatorNames ==
    << "EQUAL", "NOT_EQUAL", "GREATER", "GREATER_OR_EQUAL", "LESS",
       "LESS_OR_EQUAL", "LIKE", "NOT_LIKE", "IN", "NOT_IN", "IS_NULL",
       "IS_NOT_NULL", "BETWEEN", "NOT_BETWEEN", "CONTAINS", "NOT_CONTAINS",
       "STARTS_WITH", "ENDS_WITH" >>

\* The string each attribute is assigned.
OperatorValue(name) ==
    CASE name = "EQUAL" -> "="
      [] name = "NOT_EQUAL" -> "!="
      [] name = "GREATER" -> ">"
      [] name = "GREATER_OR_EQUAL" -> ">="
      [] name = "LESS" -> "<"
      [] name = "LESS_OR_EQUAL" -> "<="
      [] name = "LIKE" -> "LIKE"
      [] name = "NOT_LIKE" -> "NOT LIKE"
      [] name = "IN" -> "IN"
      [] name = "NOT_IN" -> "NOT IN"
      [] name = "IS_NULL" -> "IS NULL"
      [] name = "IS_NOT_NULL" -> "IS NOT NULL"
      [] name = "BETWEEN" -> "BETWEEN"
      [] name = "NOT_BETWEEN" -> "NOT BETWEEN"
      [] name = "CONTAINS" -> "LIKE"
      [] name = "NOT_CONTAINS" -> "NOT LIKE"
      [] name = "STARTS_WITH" -> "LIKE"
      [] name = "ENDS_WITH" -> "LIKE"

\* hasattr(FilterOperator, name): reading any other attribute raises AttributeError.
HasOperator(name) == \E k \in DOMAIN OperatorNames : OperatorNames[k] = name

\* FilterOperator.<name>, for a name the enum has.  The enum is a StrEnum that is
\* not @unique: a name assigned a value an earlier name already holds is an alias
\* of that earlier member.  A member is represented by its first name.
FilterOperator(name) ==
    LET k == CHOOSE k \in DOMAIN OperatorNames :
                 /\ OperatorValue(OperatorNames[k]) = OperatorValue(name)
                 /\ \A j \in 1..(k - 1) :
                        OperatorValue(OperatorNames[j]) # OperatorValue(name)
    IN  OperatorNames[k]

\* A chain of comparisons of `operator` with FilterOperator.<names[k]>, k = from..:
\* the first name it equals, "AttributeError" once a name the enum lacks is read,
\* "no_match" when the chain ends.
RECURSIVE MatchOperator(_, _, _)

\* The chain with a name the enum lacks passed over instead of raising.
MatchOperatorSkippingMissing(names, operator, from) ==
    IF from > Len(names) THEN "no_match"
    ELSE IF ~HasOperator(names[from]) THEN MatchOperator(names, operator, from + 1)
    ELSE IF FilterOperator(names[from]) = operator THEN names[from]
    ELSE MatchOperator(names, operator, from + 1)

MatchOperator(names, operator, from) ==
    IF from > Len(names) THEN "no_match"
    ELSE IF ~HasOperator(names[from]) THEN "AttributeError"
    ELSE IF FilterOperator(names[from]) = operator THEN names[from]
    ELSE MatchOperator(names, operator, from + 1)

\* --------------------------------------------------- Filter, Order, Criteria

\* A filter that was given no message attribute.
NoMessage == "<no message>"

\* Filter(field, operator, value)
Filter(field, operator, value) ==
    [field |-> field, operator |-> operator, value |-> value, message |-> NoMessage]

\* Order(field, direction)
Order(field, direction) == [field |-> field, direction |-> direction]

NoCriteria == [kind |-> "none"]

\* Criteria(filters, orders)
Criteria(filters, orders) ==
    [kind |-> "Criteria", filters |-> filters, orders |-> orders]

\* AndCriteria(left, right)
AndCriteria(left, right) == [kind |-> "AndCriteria", left |-> left, right |-> right]

\* OrCriteria(left, right)
OrCriteria(left, right) == [kind |-> "OrCriteria", left |-> left, right |-> right]

\* NotCriteria(criteria)
NotCriteria(inner) == [kind |-> "NotCriteria", criteria |-> inner]

\* has_filters(): whether any Leaf below holds a filter.
RECURSIVE HasFilters(_)
HasFilters(c) ==
    CASE c.kind = "Criteria" -> c.filters # <<>>
      [] c.kind = "NotCriteria" -> HasFilters(c.criteria)
      [] OTHER -> HasFilters(c.left) \/ HasFilters(c.right)

\* The orders property: the orders of the Leaves below, left before right.
RECURSIVE FlatOrders(_)
FlatOrders(c) ==
    CASE c.kind = "Criteria" -> c.orders
      [] c.kind = "NotCriteria" -> FlatOrders(c.criteria)
      [] OTHER -> FlatOrders(c.left) \o FlatOrders(c.right)

\* has_orders()
HasOrders(c) == FlatOrders(c) # <<>>

\* The filters of the Leaves below, left before right.
RECURSIVE LeafFilters(_)
LeafFilters(c) ==
    CASE c.kind = "Criteria" -> c.filters
      [] c.kind = "NotCriteria" -> LeafFilters(c.criteria)
      [] OTHER -> LeafFilters(c.left) \o LeafFilters(c.right)

\* ------------------------------------------------------- SQL converter

Txt(s) == [k |-> "txt", s |-> s, n |-> 0]

\* f'%({parameter_name})s' with parameter_name = f'parameter_{n}'
Placeholder(n) == [k |-> "param", s |-> "parameter_", n |-> n]

\* The case patterns of the match on filter.operator, in order.
SqlCases ==
    << "EQUAL", "NOT_EQUAL", "GREATER", "GREATER_OR_EQUAL", "LESS",
       "LESS_OR_EQUAL", "LIKE", "NOT_LIKE", "CONTAINS", "NOT_CONTAINS",
       "STARTS_WITH", "NOT_STARTS_WITH", "ENDS_WITH", "NOT_ENDS_WITH",
       "BETWEEN", "NOT_BETWEEN", "IS_NULL", "IS_NOT_NULL" >>

\* The text a one-placeholder case appends to filters.
OneParameterFragment(case, filter_field, placeholder) ==
    CASE case = "EQUAL" -> << Txt(filter_field), Txt(" = "), placeholder >>
      [] case = "NOT_EQUAL" -> << Txt(filter_field), Txt(" != "), placeholder >>
      [] case = "GREATER" -> << Txt(filter_field), Txt(" > "), placeholder >>
      [] case = "GREATER_OR_EQUAL" -> << Txt(filter_field), Txt(" >= "), placeholder >>
      [] case = "LESS" -> << Txt(filter_field), Txt(" < "), placeholder >>
      [] case = "LESS_OR_EQUAL" -> << Txt(filter_field), Txt(" <= "), placeholder >>
      [] case = "LIKE" -> << Txt(filter_field), Txt(" LIKE "), placeholder >>
      [] case = "NOT_LIKE" -> << Txt(filter_field), Txt(" NOT LIKE "), placeholder >>
      [] case = "CONTAINS" ->
            << Txt(filter_field), Txt(" LIKE '%%' || "), placeholder, Txt(" || '%%'") >>
      [] case = "NOT_CONTAINS" ->
            << Txt(filter_field), Txt(" NOT LIKE '%%' || "), placeholder, Txt(" || '%%'") >>
      [] case = "STARTS_WITH" ->
            << Txt(filter_field), Txt(" LIKE "), placeholder, Txt(" || '%%'") >>
      [] case = "NOT_STARTS_WITH" ->
            << Txt(filter_field), Txt(" NOT LIKE "), placeholder, Txt(" || '%%'") >>
      [] case = "ENDS_WITH" -> << Txt(filter_field), Txt(" LIKE '%%' || "), placeholder >>
      [] case = "NOT_ENDS_WITH" ->
            << Txt(filter_field), Txt(" NOT LIKE '%%' || "), placeholder >>

\* value[index]: a list, tuple or str is subscriptable, nothing else is.
Subscript(value, index) ==
    CASE value.t \in {"list", "tuple"} ->
            IF index < Len(value.l) THEN Returned(PyInt(value.l[index + 1]))
            ELSE Raised("IndexError")
      [] value.t = "str" ->
            IF index < Len(value.s) THEN Returned(PyStr(<< value.s[index + 1] >>))
            ELSE Raised("IndexError")
      [] OTHER -> Raised("TypeError")

\* The loop over criteria.filters of a Leaf, from filter number `from` on, with the
\* text, the parameters and the counter built so far.
RECURSIVE ProcessLeafFilters(_, _, _, _, _, _)
\* The loop with the value written into the text where the placeholder goes.
ProcessLeafFiltersInterpolating(filters_in, from, columns_mapping, filters, parameters, parameters_counter) ==
    IF from > Len(filters_in)
    THEN [err |-> "none", filters |-> filters, parameters |-> parameters]
    ELSE
    LET filter == filters_in[from]
        filter_field == DictGet(columns_mapping, filter.field, filter.field)
        allocated == DictSet(parameters, parameters_counter, filter.value)
        placeholder == [k |-> "literal", s |-> filter.value.t,
                        n |-> filter.value.i + Len(filter.value.s)]
        case == MatchOperator(SqlCases, filter.operator, 1)
        released == DictPop(allocated, parameters_counter)
        start == Subscript(filter.value, 0)
        end == Subscript(filter.value, 1)
        keyword == IF case = "BETWEEN" THEN " BETWEEN " ELSE " NOT BETWEEN "
    IN  CASE case = "AttributeError" -> Raised("AttributeError")
          [] case = "no_match" -> Raised("AssertionError")
          [] case \in {"BETWEEN", "NOT_BETWEEN"} ->
                IF start.err # "none" THEN Raised(start.err)
                ELSE IF end.err # "none" THEN Raised(end.err)
                ELSE ProcessLeafFilters(
                         filters_in, from + 1, columns_mapping,
                         filters \o << Txt(filter_field), Txt(keyword),
                                       Placeholder(parameters_counter), Txt(" AND "),
                                       Placeholder(parameters_counter + 1) >>,
                         DictSet(DictSet(released, parameters_counter, start.val),
                                 parameters_counter + 1, end.val),
                         parameters_counter + 2)
          [] case = "IS_NULL" ->
                ProcessLeafFilters(
                    filters_in, from + 1, columns_mapping,
                    filters \o << Txt(filter_field), Txt(" IS NULL") >>,
                    released, parameters_counter)
          [] case = "IS_NOT_NULL" ->
                ProcessLeafFilters(
                    filters_in, from + 1, columns_mapping,
                    filters \o << Txt(filter_field), Txt(" IS NOT NULL") >>,
                    released, parameters_counter)
          [] OTHER ->
                ProcessLeafFilters(
                    filters_in, from + 1, columns_mapping,
                    filters \o OneParameterFragment(case, filter_field, placeholder),
                    allocated, parameters_counter + 1)

ProcessLeafFilters(filters_in, from, columns_mapping, filters, parameters, parameters_counter) ==
    IF from > Len(filters_in)
    THEN [err |-> "none", filters |-> filters, parameters |-> parameters]
    ELSE
    LET filter == filters_in[from]
        filter_field == DictGet(columns_mapping, filter.field, filter.field)
        allocated == DictSet(parameters, parameters_counter, filter.value)
        placeholder == Placeholder(parameters_counter)
        case == MatchOperator(SqlCases, filter.operator, 1)
        released == DictPop(allocated, parameters_counter)
        start == Subscript(filter.value, 0)
        end == Subscript(filter.value, 1)
        keyword == IF case = "BETWEEN" THEN " BETWEEN " ELSE " NOT BETWEEN "
    IN  CASE case = "AttributeError" -> Raised("AttributeError")
          [] case = "no_match" -> Raised("AssertionError")
          [] case \in {"BETWEEN", "NOT_BETWEEN"} ->
                IF start.err # "none" THEN Raised(start.err)
                ELSE IF end.err # "none" THEN Raised(end.err)
                ELSE ProcessLeafFilters(
                         filters_in, from + 1, columns_mapping,
                         filters \o << Txt(filter_field), Txt(keyword),
                                       Placeholder(parameters_counter), Txt(" AND "),
                                       Placeholder(parameters_counter + 1) >>,
                         DictSet(DictSet(released, parameters_counter, start.val),
                                 parameters_counter + 1, end.val),
                         parameters_counter + 2)
          [] case = "IS_NULL" ->
                ProcessLeafFilters(
                    filters_in, from + 1, columns_mapping,
                    filters \o << Txt(filter_field), Txt(" IS NULL") >>,
                    released, parameters_counter)
          [] case = "IS_NOT_NULL" ->
                ProcessLeafFilters(
                    filters_in, from + 1, columns_mapping,
                    filters \o << Txt(filter_field), Txt(" IS NOT NULL") >>,
                    released, parameters_counter)
          [] OTHER ->
                ProcessLeafFilters(
                    filters_in, from + 1, columns_mapping,
                    filters \o OneParameterFragment(case, filter_field, placeholder),
                    allocated, parameters_counter + 1)

\* len(parameters)
DictLen(d) == Cardinality(DOMAIN d)

\* SqlConverter._process_filters_recursive
RECURSIVE ProcessFiltersRecursive(_, _, _)
ProcessFiltersRecursive(c, columns_mapping, parameters_counter) ==
    IF c.kind \in {"AndCriteria", "OrCriteria"}
    THEN LET left == ProcessFiltersRecursive(c.left, columns_mapping, parameters_counter)
         IN  IF left.err # "none" THEN left
             ELSE
             LET right == ProcessFiltersRecursive(
                              c.right, columns_mapping,
                              parameters_counter + DictLen(left.parameters))
                 connective == IF c.kind = "AndCriteria" THEN " AND " ELSE " OR "
             IN  IF right.err # "none" THEN right
                 ELSE [err |-> "none",
                       filters |-> << Txt("(") >> \o left.filters \o << Txt(connective) >>
                                   \o right.filters \o << Txt(")") >>,
                       parameters |-> DictUpdate(DictUpdate(<< >>, left.parameters),
                                                 right.parameters)]
    ELSE IF c.kind = "NotCriteria"
    THEN LET inner == ProcessFiltersRecursive(c.criteria, columns_mapping, parameters_counter)
         IN  IF inner.err # "none" THEN inner
             ELSE [err |-> "none",
                   filters |-> << Txt("NOT (") >> \o inner.filters \o << Txt(")") >>,
                   parameters |-> DictUpdate(<< >>, inner.parameters)]
    ELSE ProcessLeafFilters(c.filters, 1, columns_mapping, << >>, << >>, parameters_counter)

\* SqlConverter._process_filters
ProcessFilters(c, columns_mapping) == ProcessFiltersRecursive(c, columns_mapping, 0)

\* text.rstrip(', '): the trailing run of commas and spaces goes.  Every other
\* token of an order list ends in a letter.
RECURSIVE RStripCommaSpace(_)
RStripCommaSpace(text) ==
    IF text # << >> /\ text[Len(text)] \in {Txt(", "), Txt(","), Txt(" ")}
    THEN RStripCommaSpace(SubSeq(text, 1, Len(text) - 1))
    ELSE text

\* The loop of _process_orders.
RECURSIVE OrdersLoop(_, _, _, _)
OrdersLoop(orders_in, from, columns_mapping, orders) ==
    IF from > Len(orders_in) THEN [err |-> "none", orders |-> orders]
    ELSE LET order == orders_in[from]
             order_field == DictGet(columns_mapping, order.field, order.field)
         IN  CASE order.direction = "ASC" ->
                    OrdersLoop(orders_in, from + 1, columns_mapping,
                               orders \o << Txt(order_field), Txt(" ASC"), Txt(", ") >>)
               [] order.direction = "DESC" ->
                    OrdersLoop(orders_in, from + 1, columns_mapping,
                               orders \o << Txt(order_field), Txt(" DESC"), Txt(", ") >>)
               [] OTHER -> Raised("AssertionError")

\* _process_orders with the final rstrip(', ') left out.
ProcessOrdersUnstripped(c, columns_mapping) ==
    OrdersLoop(FlatOrders(c), 1, columns_mapping, << >>)

\* SqlConverter._process_orders
ProcessOrders(c, columns_mapping) ==
    LET looped == OrdersLoop(FlatOrders(c), 1, columns_mapping, << >>)
    IN  IF looped.err # "none" THEN looped
        ELSE [err |-> "none", orders |-> RStripCommaSpace(looped.orders)]

\* ", ".join(columns)
RECURSIVE JoinColumns(_)
JoinColumns(columns) ==
    IF columns = << >> THEN << >>
    ELSE IF Len(columns) = 1 THEN << Txt(columns[1]) >>
    ELSE << Txt(columns[1]), Txt(", ") >> \o JoinColumns(Tail(columns))

\* An optional argument: left out (None), or given.
NoArgument == [given |-> FALSE, value |-> << >>]

Argument(value) == [given |-> TRUE, value |-> value]

\* convert with the has_filters() test dropped: the WHERE clause always emitted.
ConvertAlwaysWhere(c, table, columns_arg, columns_mapping_arg) ==
    LET columns == IF ~columns_arg.given THEN << "*" >> ELSE columns_arg.value
        columns_mapping ==
            IF ~columns_mapping_arg.given THEN << >> ELSE columns_mapping_arg.value
        select == << Txt("SELECT ") >> \o JoinColumns(columns)
                  \o << Txt(" FROM "), Txt(table) >>
        where == ProcessFilters(c, columns_mapping)
        ordered == ProcessOrders(c, columns_mapping)
        with_where == select \o << Txt(" WHERE ") >> \o where.filters
        with_orders ==
            IF HasOrders(c) THEN with_where \o << Txt(" ORDER BY ") >> \o ordered.orders
            ELSE with_where
    IN  IF where.err # "none" THEN Raised(where.err)
        ELSE IF HasOrders(c) /\ ordered.err # "none" THEN Raised(ordered.err)
        ELSE [err |-> "none", query |-> with_orders \o << Txt(";") >>,
              parameters |-> where.parameters]

\* convert with columns_mapping applied to the selected columns as well.
ConvertMappingColumns(c, table, columns_arg, columns_mapping_arg) ==
    LET columns_mapping ==
            IF ~columns_mapping_arg.given THEN << >> ELSE columns_mapping_arg.value
        given == IF ~columns_arg.given THEN << "*" >> ELSE columns_arg.value
        columns == [k \in DOMAIN given |-> DictGet(columns_mapping, given[k], given[k])]
        select == << Txt("SELECT ") >> \o JoinColumns(columns)
                  \o << Txt(" FROM "), Txt(table) >>
        where == ProcessFilters(c, columns_mapping)
        ordered == ProcessOrders(c, columns_mapping)
        with_where ==
            IF HasFilters(c) THEN select \o << Txt(" WHERE ") >> \o where.filters
            ELSE select
        parameters == IF HasFilters(c) THEN where.parameters ELSE << >>
        with_orders ==
            IF HasOrders(c) THEN with_where \o << Txt(" ORDER BY ") >> \o ordered.orders
            ELSE with_where
    IN  IF HasFilters(c) /\ where.err # "none" THEN Raised(where.err)
        ELSE IF HasOrders(c) /\ ordered.err # "none" THEN Raised(ordered.err)
        ELSE [err |-> "none", query |-> with_orders \o << Txt(";") >>,
              parameters |-> parameters]

\* SqlConverter.convert
Convert(c, table, columns_arg, columns_mapping_arg) ==
    LET columns == IF ~columns_arg.given THEN << "*" >> ELSE columns_arg.value
        columns_mapping ==
            IF ~columns_mapping_arg.given THEN << >> ELSE columns_mapping_arg.value
        select == << Txt("SELECT ") >> \o JoinColumns(columns)
                  \o << Txt(" FROM "), Txt(table) >>
        where == ProcessFilters(c, columns_mapping)
        ordered == ProcessOrders(c, columns_mapping)
        with_where ==
            IF HasFilters(c) THEN select \o << Txt(" WHERE ") >> \o where.filters
            ELSE select
        parameters == IF HasFilters(c) THEN where.parameters ELSE << >>
        with_orders ==
            IF HasOrders(c) THEN with_where \o << Txt(" ORDER BY ") >> \o ordered.orders
            ELSE with_where
    IN  IF HasFilters(c) /\ where.err # "none" THEN Raised(where.err)
        ELSE IF HasOrders(c) /\ ordered.err # "none" THEN Raised(ordered.err)
        ELSE [err |-> "none", query |-> with_orders \o << Txt(";") >>,
              parameters |-> parameters]

\* ----------------------------------------------------------- evaluator

\* ord(c), for the characters used
CharCode(c) ==
    CASE c = "\n" -> 10
      [] c = "%" -> 37
      [] c = "*" -> 42
      [] c = "." -> 46
      [] c = "_" -> 95
      [] c = "a" -> 97
      [] c = "b" -> 98
      [] c = "c" -> 99

\* x < y for two sequences of numbers: the order of lists, tuples and (by
\* character code) strings.
RECURSIVE SeqLess(_, _)
SeqLess(x, y) ==
    IF y = << >> THEN FALSE
    ELSE IF x = << >> THEN TRUE
    ELSE IF x[1] < y[1] THEN TRUE
    ELSE IF x[1] > y[1] THEN FALSE
    ELSE SeqLess(Tail(x), Tail(y))

CharCodes(chars) == [k \in DOMAIN chars |-> CharCode(chars[k])]

\* a == b
PyEq(a, b) == a = b

\* a < b: defined within one type, a TypeError across types and on None.
PyLess(a, b) ==
    CASE a.t = "int" /\ b.t = "int" -> Returned(a.i < b.i)
      [] a.t = "str" /\ b.t = "str" -> Returned(SeqLess(CharCodes(a.s), CharCodes(b.s)))
      [] a.t = "list" /\ b.t = "list" -> Returned(SeqLess(a.l, b.l))
      [] a.t = "tuple" /\ b.t = "tuple" -> Returned(SeqLess(a.l, b.l))
      [] OTHER -> Raised("TypeError")

\* a <= b
PyLessEq(a, b) ==
    LET less == PyLess(a, b)
    IN  IF less.err # "none" THEN less ELSE Returned(less.val \/ a = b)

\* not r, for a call r that returned a bool
Negated(r) == IF r.err # "none" THEN r ELSE Returned(~r.val)

\* chars.replace(old, new), old one character
RECURSIVE StrReplace(_, _, _)
StrReplace(chars, old, new) ==
    IF chars = << >> THEN << >>
    ELSE (IF chars[1] = old THEN new ELSE << chars[1] >>)
         \o StrReplace(Tail(chars), old, new)

\* re.compile rejects a '*' with nothing to repeat and a repeated '*'.
RegexError(pattern) ==
    \E p \in DOMAIN pattern :
        pattern[p] = "*" /\ (p = 1 \/ pattern[p - 1] = "*")

\* Whether the regular expression atom matches the character: '.' is any character
\* but a newline, every other atom used here is a literal.
AtomMatches(atom, char) == IF atom = "." THEN char # "\n" ELSE atom = char

\* Whether pattern[p..] matches the whole of chars[k..].
RECURSIVE RegexMatch(_, _, _, _)
RegexMatch(pattern, p, chars, k) ==
    IF p > Len(pattern) THEN k > Len(chars)
    ELSE IF p < Len(pattern) /\ pattern[p + 1] = "*"
    THEN \/ RegexMatch(pattern, p + 2, chars, k)
         \/ /\ k <= Len(chars)
            /\ AtomMatches(pattern[p], chars[k])
            /\ RegexMatch(pattern, p, chars, k + 1)
    ELSE /\ k <= Len(chars)
         /\ AtomMatches(pattern[p], chars[k])
         /\ RegexMatch(pattern, p + 1, chars, k + 1)

\* bool(re.fullmatch(filter_value.replace('%', '.*').replace('_', '.'), obj_value))
LikeFullMatch(obj_value, filter_value) ==
    IF filter_value.t # "str" THEN Raised("AttributeError")
    ELSE LET pattern == StrReplace(StrReplace(filter_value.s, "%", << ".", "*" >>),
                                   "_", << "." >>)
         IN  IF RegexError(pattern) THEN Raised("re.error")
             ELSE Returned(RegexMatch(pattern, 1, obj_value.s, 1))

\* obj_value.startswith(filter_value)
StartsWith(obj_value, filter_value) ==
    IF filter_value.t # "str" THEN Raised("TypeError")
    ELSE Returned(/\ Len(filter_value.s) <= Len(obj_value.s)
                  /\ SubSeq(obj_value.s, 1, Len(filter_value.s)) = filter_value.s)

\* obj_value.endswith(filter_value)
EndsWith(obj_value, filter_value) ==
    IF filter_value.t # "str" THEN Raised("TypeError")
    ELSE Returned(/\ Len(filter_value.s) <= Len(obj_value.s)
                  /\ SubSeq(obj_value.s, Len(obj_value.s) - Len(filter_value.s) + 1,
                            Len(obj_value.s)) = filter_value.s)

\* filter_value in obj_value, obj_value a str
StrContains(obj_value, filter_value) ==
    IF filter_value.t # "str" THEN Raised("TypeError")
    ELSE Returned(\E k \in 0..(Len(obj_value.s) - Len(filter_value.s)) :
                      SubSeq(obj_value.s, k + 1, k + Len(filter_value.s)) = filter_value.s)

\* The operators the branch for a str obj_value compares with, in order.
StringCases ==
    << "LIKE", "NOT_LIKE", "CONTAINS", "NOT_CONTAINS", "STARTS_WITH",
       "NOT_STARTS_WITH", "ENDS_WITH", "NOT_ENDS_WITH" >>

\* The range test with its shape guard answering False instead of raising.
BetweenShapeUnchecked(obj_value, filter_value) ==
    IF ~(filter_value.t \in {"list", "tuple"}) \/ Len(filter_value.l) # 2
    THEN Returned(FALSE)
    ELSE LET low == PyLessEq(PyInt(filter_value.l[1]), obj_value)
         IN  IF low.err # "none" THEN low
             ELSE IF ~low.val THEN Returned(FALSE)
             ELSE PyLessEq(obj_value, PyInt(filter_value.l[2]))

\* The range operators: filter_value[0] <= obj_value <= filter_value[1]
Between(obj_value, filter_value) ==
    IF ~(filter_value.t \in {"list", "tuple"}) \/ Len(filter_value.l) # 2
    THEN Raised("ValueError")
    ELSE LET low == PyLessEq(PyInt(filter_value.l[1]), obj_value)
         IN  IF low.err # "none" THEN low
             ELSE IF ~low.val THEN Returned(FALSE)
             ELSE PyLessEq(obj_value, PyInt(filter_value.l[2]))

\* _evaluate_filter, from the range operators on
EvaluateRange(obj_value, filter) ==
    CASE filter.operator = FilterOperator("BETWEEN") -> Between(obj_value, filter.value)
      [] filter.operator = FilterOperator("NOT_BETWEEN") ->
            Negated(Between(obj_value, filter.value))
      [] OTHER -> Raised("ValueError")

\* _evaluate_filter, the branch for a str obj_value
EvaluateString(obj_value, filter) ==
    LET case == MatchOperator(StringCases, filter.operator, 1)
    IN  CASE case = "AttributeError" -> Raised("AttributeError")
          [] case = "LIKE" -> LikeFullMatch(obj_value, filter.value)
          [] case = "NOT_LIKE" -> Negated(LikeFullMatch(obj_value, filter.value))
          [] case = "CONTAINS" -> StrContains(obj_value, filter.value)
          [] case = "NOT_CONTAINS" -> Negated(StrContains(obj_value, filter.value))
          [] case = "STARTS_WITH" -> StartsWith(obj_value, filter.value)
          [] case = "NOT_STARTS_WITH" -> Negated(StartsWith(obj_value, filter.value))
          [] case = "ENDS_WITH" -> EndsWith(obj_value, filter.value)
          [] case = "NOT_ENDS_WITH" -> Negated(EndsWith(obj_value, filter.value))
          [] OTHER -> EvaluateRange(obj_value, filter)

\* _evaluate_filter with the 'obj_value is None' test dropped.
EvaluateFilterNoneUnchecked(obj_value, filter) ==
    LET operator == filter.operator
        filter_value == filter.value
    IN  CASE operator = FilterOperator("IS_NULL") -> Returned(obj_value = PyNone)
          [] operator = FilterOperator("IS_NOT_NULL") -> Returned(obj_value # PyNone)
          [] operator = FilterOperator("EQUAL") -> Returned(PyEq(obj_value, filter_value))
          [] operator = FilterOperator("NOT_EQUAL") ->
                Returned(~PyEq(obj_value, filter_value))
          [] operator = FilterOperator("GREATER") -> PyLess(filter_value, obj_value)
          [] operator = FilterOperator("GREATER_OR_EQUAL") ->
                PyLessEq(filter_value, obj_value)
          [] operator = FilterOperator("LESS") -> PyLess(obj_value, filter_value)
          [] operator = FilterOperator("LESS_OR_EQUAL") -> PyLessEq(obj_value, filter_value)
          [] obj_value.t = "str" -> EvaluateString(obj_value, filter)
          [] OTHER -> EvaluateRange(obj_value, filter)

\* _evaluate_filter
EvaluateFilter(obj_value, filter) ==
    LET operator == filter.operator
        filter_value == filter.value
    IN  CASE operator = FilterOperator("IS_NULL") -> Returned(obj_value = PyNone)
          [] operator = FilterOperator("IS_NOT_NULL") -> Returned(obj_value # PyNone)
          [] obj_value = PyNone -> Returned(FALSE)
          [] operator = FilterOperator("EQUAL") -> Returned(PyEq(obj_value, filter_value))
          [] operator = FilterOperator("NOT_EQUAL") ->
                Returned(~PyEq(obj_value, filter_value))
          [] operator = FilterOperator("GREATER") -> PyLess(filter_value, obj_value)
          [] operator = FilterOperator("GREATER_OR_EQUAL") ->
                PyLessEq(filter_value, obj_value)
          [] operator = FilterOperator("LESS") -> PyLess(obj_value, filter_value)
          [] operator = FilterOperator("LESS_OR_EQUAL") -> PyLessEq(obj_value, filter_value)
          [] obj_value.t = "str" -> EvaluateString(obj_value, filter)
          [] OTHER -> EvaluateRange(obj_value, filter)

\* The loop of validate_object over the filters of a Leaf: False at the first
\* filter that fails.
RECURSIVE ValidateFilters(_, _, _)
ValidateFilters(obj, filters, from) ==
    IF from > Len(filters) THEN Returned(TRUE)
    ELSE LET field_value == DictGet(obj, filters[from].field, PyNone)
             evaluated == EvaluateFilter(field_value, filters[from])
         IN  IF evaluated.err # "none" THEN evaluated
             ELSE IF ~evaluated.val THEN Returned(FALSE)
             ELSE ValidateFilters(obj, filters, from + 1)

RECURSIVE ValidateObject(_, _)

\* validate_object with the has_filters() test dropped.
ValidateObjectUnguarded(obj, c) ==
    IF c.kind = "AndCriteria"
    THEN LET left == ValidateObject(obj, c.left)
         IN  IF left.err # "none" \/ ~left.val THEN left ELSE ValidateObject(obj, c.right)
    ELSE IF c.kind = "OrCriteria"
    THEN LET left == ValidateObject(obj, c.left)
         IN  IF left.err # "none" \/ left.val THEN left ELSE ValidateObject(obj, c.right)
    ELSE IF c.kind = "NotCriteria" THEN Negated(ValidateObject(obj, c.criteria))
    ELSE ValidateFilters(obj, c.filters, 1)

\* validate_object with the 'not' of the NotCriteria branch dropped.
ValidateObjectNotDropped(obj, c) ==
    IF ~HasFilters(c) THEN Returned(TRUE)
    ELSE IF c.kind = "AndCriteria"
    THEN LET left == ValidateObject(obj, c.left)
         IN  IF left.err # "none" \/ ~left.val THEN left ELSE ValidateObject(obj, c.right)
    ELSE IF c.kind = "OrCriteria"
    THEN LET left == ValidateObject(obj, c.left)
         IN  IF left.err # "none" \/ left.val THEN left ELSE ValidateObject(obj, c.right)
    ELSE IF c.kind = "NotCriteria" THEN ValidateObject(obj, c.criteria)
    ELSE ValidateFilters(obj, c.filters, 1)

\* validate_object with 'or' written in the AndCriteria branch.
ValidateObjectAndAsOr(obj, c) ==
    IF ~HasFilters(c) THEN Returned(TRUE)
    ELSE IF c.kind \in {"AndCriteria", "OrCriteria"}
    THEN LET left == ValidateObject(obj, c.left)
         IN  IF left.err # "none" \/ left.val THEN left ELSE ValidateObject(obj, c.right)
    ELSE IF c.kind = "NotCriteria" THEN Negated(ValidateObject(obj, c.criteria))
    ELSE ValidateFilters(obj, c.filters, 1)

\* validate_object with 'and' written in the OrCriteria branch.
ValidateObjectOrAsAnd(obj, c) ==
    IF ~HasFilters(c) THEN Returned(TRUE)
    ELSE IF c.kind \in {"AndCriteria", "OrCriteria"}
    THEN LET left == ValidateObject(obj, c.left)
         IN  IF left.err # "none" \/ ~left.val THEN left ELSE ValidateObject(obj, c.right)
    ELSE IF c.kind = "NotCriteria" THEN Negated(ValidateObject(obj, c.criteria))
    ELSE ValidateFilters(obj, c.filters, 1)

\* validate_object with the AndCriteria branch returning its left operand's result.
ValidateObjectAndLeftOnly(obj, c) ==
    IF ~HasFilters(c) THEN Returned(TRUE)
    ELSE IF c.kind = "AndCriteria" THEN ValidateObject(obj, c.left)
    ELSE IF c.kind = "OrCriteria"
    THEN LET left == ValidateObject(obj, c.left)
         IN  IF left.err # "none" \/ left.val THEN left ELSE ValidateObject(obj, c.right)
    ELSE IF c.kind = "NotCriteria" THEN Negated(ValidateObject(obj, c.criteria))
    ELSE ValidateFilters(obj, c.filters, 1)

\* validate_object
ValidateObject(obj, c) ==
    IF ~HasFilters(c) THEN Returned(TRUE)
    ELSE IF c.kind = "AndCriteria"
    THEN LET left == ValidateObject(obj, c.left)
         IN  IF left.err # "none" \/ ~left.val THEN left ELSE ValidateObject(obj, c.right)
    ELSE IF c.kind = "OrCriteria"
    THEN LET left == ValidateObject(obj, c.left)
         IN  IF left.err # "none" \/ left.val THEN left ELSE ValidateObject(obj, c.right)
    ELSE IF c.kind = "NotCriteria" THEN Negated(ValidateObject(obj, c.criteria))
    ELSE ValidateFilters(obj, c.filters, 1)

\* f"Field '{filter.field}' failed {filter.operator} check"
DefaultMessage(filter) ==
    << "Field '", filter.field, "' failed ", OperatorValue(filter.operator), " check" >>

\* getattr(filter, 'message', None) or the default message
MessageOf(filter) ==
    IF filter.message \in {NoMessage, ""} THEN DefaultMessage(filter)
    ELSE << filter.message >>

\* The loop of validate_object_with_messages over the filters of a Leaf: every
\* filter is evaluated, each failed one adds its message.
RECURSIVE MessagesOfFilters(_, _, _, _, _)
MessagesOfFilters(obj, filters, from, is_valid, errors) ==
    IF from > Len(filters) THEN [err |-> "none", val |-> is_valid, errors |-> errors]
    ELSE LET field_value == DictGet(obj, filters[from].field, PyNone)
             evaluated == EvaluateFilter(field_value, filters[from])
         IN  IF evaluated.err # "none" THEN evaluated
             ELSE IF ~evaluated.val
             THEN MessagesOfFilters(obj, filters, from + 1, FALSE,
                                    Append(errors, MessageOf(filters[from])))
             ELSE MessagesOfFilters(obj, filters, from + 1, is_valid, errors)

\* validate_object_with_messages
RECURSIVE ValidateObjectWithMessages(_, _)
\* validate_object_with_messages with 'and' written in the OrCriteria branch.
ValidateObjectWithMessagesOrAsAnd(obj, c) ==
    IF ~HasFilters(c) THEN [err |-> "none", val |-> TRUE, errors |-> << >>]
    ELSE IF c.kind \in {"AndCriteria", "OrCriteria"}
    THEN LET first == ValidateObjectWithMessages(obj, c.left)
             second == ValidateObjectWithMessages(obj, c.right)
         IN  IF first.err # "none" THEN first
             ELSE IF second.err # "none" THEN second
             ELSE IF c.kind = "AndCriteria"
             THEN [err |-> "none", val |-> first.val /\ second.val,
                   errors |-> first.errors \o second.errors]
             ELSE [err |-> "none", val |-> first.val /\ second.val,
                   errors |-> IF first.val THEN first.errors ELSE second.errors]
    ELSE IF c.kind = "NotCriteria"
    THEN LET inner == ValidateObjectWithMessages(obj, c.criteria)
         IN  IF inner.err # "none" THEN inner
             ELSE [err |-> "none", val |-> ~inner.val, errors |-> inner.errors]
    ELSE MessagesOfFilters(obj, c.filters, 1, TRUE, << >>)

ValidateObjectWithMessages(obj, c) ==
    IF ~HasFilters(c) THEN [err |-> "none", val |-> TRUE, errors |-> << >>]
    ELSE IF c.kind \in {"AndCriteria", "OrCriteria"}
    THEN LET first == ValidateObjectWithMessages(obj, c.left)
             second == ValidateObjectWithMessages(obj, c.right)
         IN  IF first.err # "none" THEN first
             ELSE IF second.err # "none" THEN second
             ELSE IF c.kind = "AndCriteria"
             THEN [err |-> "none", val |-> first.val /\ second.val,
                   errors |-> first.errors \o second.errors]
             ELSE [err |-> "none", val |-> first.val \/ second.val,
                   errors |-> IF first.val THEN first.errors ELSE second.errors]
    ELSE IF c.kind = "NotCriteria"
    THEN LET inner == ValidateObjectWithMessages(obj, c.criteria)
         IN  IF inner.err # "none" THEN inner
             ELSE [err |-> "none", val |-> ~inner.val, errors |-> inner.errors]
    ELSE MessagesOfFilters(obj, c.filters, 1, TRUE, << >>)

\* ------------------------------------------------- the objects worked on

\* The Leaves an expression starts from.
StartLeaves ==
    { Criteria(<< >>, << >>),
      Criteria(<< >>, << Order("name", "ASC") >>),
      Criteria(<< Filter("name", FilterOperator("EQUAL"), PyStr(<< "a" >>)) >>,
               << Order("email", "DESC") >>),
      Criteria(<< Filter("email", FilterOperator("IS_NOT_NULL"), PyNone) >>, << >>),
      Criteria(<< Filter("age", FilterOperator("LESS"), PyInt(2)),
                  Filter("name", FilterOperator("NOT_EQUAL"), PyStr(<< "b" >>)) >>,
               << Order("name", "ASC"), Order("age", "DESC") >>),
      Criteria(<< Filter("age", FilterOperator("BETWEEN"), PyList(<< 1, 2 >>)) >>, << >>),
      Criteria(<< Filter("name", FilterOperator("EQUAL"), PyStr(<< "a" >>)),
                  Filter("age", FilterOperator("NOT_BETWEEN"), PyList(<< 1 >>)) >>,
               << >>) }

\* The Leaves an expression is combined with.
OperandLeaves ==
    { Criteria(<< >>, << >>),
      Criteria(<< Filter("name", FilterOperator("EQUAL"), PyStr(<< "a" >>)) >>,
               << Order("email", "DESC") >>),
      Criteria(<< Filter("age", FilterOperator("LESS"), PyInt(2)) >>, << >>) }

\* The records validated against an expression.
TreeObjects ==
    { << >>,
      [name |-> PyStr(<< "a" >>), age |-> PyInt(1), email |-> PyStr(<< "a" >>)],
      [name |-> PyStr(<< "b" >>), age |-> PyInt(2)],
      [name |-> PyStr(<< "a" >>), age |-> PyStr(<< "a" >>)] }

\* The columns arguments and the columns_mapping arguments of convert.
ColumnsArguments == { NoArgument, Argument(<< "id", "name" >>) }

MappingArguments == { NoArgument, Argument([name |-> "full_name", user |-> "account"]) }

NoCall == [fn |-> "none"]

NoResult == [err |-> "pending"]

\* The combinators applied to build c.
RECURSIVE Combinators(_)
Combinators(c) ==
    CASE c.kind = "Criteria" -> 0
      [] c.kind = "NotCriteria" -> 1 + Combinators(c.criteria)
      [] OTHER -> 1 + Combinators(c.left) + Combinators(c.right)

\* ------------------------------------------------------------- actions

Init ==
    /\ criteria \in StartLeaves
    /\ opname = ""
    /\ pc = "build"
    /\ call = NoCall
    /\ result = NoResult
    /\ threads = << >>
    /\ heap = << >>

\* criteria & other, other & criteria
And ==
    /\ pc = "build"
    /\ Combinators(criteria) < MaxOps
    /\ \E other \in OperandLeaves, reversed \in BOOLEAN :
           criteria' = IF reversed THEN AndCriteria(other, criteria)
                       ELSE AndCriteria(criteria, other)
    /\ UNCHANGED <<opname, pc, call, result, threads, heap>>

\* criteria | other, other | criteria
Or ==
    /\ pc = "build"
    /\ Combinators(criteria) < MaxOps
    /\ \E other \in OperandLeaves, reversed \in BOOLEAN :
           criteria' = IF reversed THEN OrCriteria(other, criteria)
                       ELSE OrCriteria(criteria, other)
    /\ UNCHANGED <<opname, pc, call, result, threads, heap>>

\* ~criteria
Invert ==
    /\ pc = "build"
    /\ Combinators(criteria) < MaxOps
    /\ criteria' = NotCriteria(criteria)
    /\ UNCHANGED <<opname, pc, call, result, threads, heap>>

\* SqlConverter.convert(criteria, 'user', columns, columns_mapping)
DoConvert ==
    /\ pc = "build"
    /\ \E columns \in ColumnsArguments, columns_mapping \in MappingArguments :
           /\ call' = [fn |-> "convert", table |-> "user", columns |-> columns,
                       columns_mapping |-> columns_mapping]
           /\ result' = Convert(criteria, "user", columns, columns_mapping)
    /\ pc' = "converted"
    /\ UNCHANGED <<criteria, opname, threads, heap>>

\* validate_object(obj, criteria)
DoValidateObject(objects) ==
    /\ pc = "build"
    /\ \E obj \in objects :
           /\ call' = [fn |-> "validate_object", obj |-> obj]
           /\ result' = ValidateObject(obj, criteria)
    /\ pc' = "validated"
    /\ UNCHANGED <<criteria, opname, threads, heap>>

\* validate_object_with_messages(obj, criteria)
DoValidateObjectWithMessages(objects) ==
    /\ pc = "build"
    /\ \E obj \in objects :
           /\ call' = [fn |-> "validate_object_with_messages", obj |-> obj]
           /\ result' = ValidateObjectWithMessages(obj, criteria)
    /\ pc' = "validated_with_messages"
    /\ UNCHANGED <<criteria, opname, threads, heap>>

Next ==
    \/ And
    \/ Or
    \/ Invert
    \/ DoConvert
    \/ DoValidateObject(TreeObjects)
    \/ DoValidateObjectWithMessages(TreeObjects)

Spec == Init /\ [][Next]_vars

\* ------------------------------------- one Leaf of one filter, any operator

\* The operator names of the catalog a caller may write.
CatalogNames ==
    { "EQUAL", "NOT_EQUAL", "GREATER", "GREATER_OR_EQUAL", "LESS", "LESS_OR_EQUAL",
      "LIKE", "NOT_LIKE", "CONTAINS", "NOT_CONTAINS", "STARTS_WITH",
      "NOT_STARTS_WITH", "ENDS_WITH", "NOT_ENDS_WITH", "IN", "NOT_IN", "IS_NULL",
      "IS_NOT_NULL", "BETWEEN", "NOT_BETWEEN" }

\* The values a filter is built with.
FilterValues ==
    { PyNone, PyInt(1), PyInt(2), PyStr(<< "a" >>), PyStr(<< "a", "b" >>),
      PyList(<< 1, 2 >>), PyTuple(<< 1, 2 >>), PyList(<< 1 >>), PyList(<< 1, 2, 3 >>) }

\* The records validated against the filter: the field absent, None, or a value.
FilterObjects ==
    { << >> } \cup
    { [f |-> v] : v \in { PyNone, PyInt(0), PyInt(1), PyInt(3), PyStr(<< "a" >>),
                          PyStr(<< "b", "a" >>), PyStr(<< "a", "b", "c" >>),
                          PyList(<< 1, 2 >>) } }

\* Criteria(filters=[Filter('f', FilterOperator.<name>, value)]): reading a name the
\* enum lacks raises before any Filter exists.
InitFilter ==
    /\ \E name \in CatalogNames, value \in FilterValues :
           /\ opname = name
           /\ IF HasOperator(name)
              THEN /\ criteria = Criteria(<< Filter("f", FilterOperator(name), value) >>, << >>)
                   /\ pc = "build"
                   /\ result = NoResult
              ELSE /\ criteria = NoCriteria
                   /\ pc = "raised"
                   /\ result = Raised("AttributeError")
    /\ call = NoCall
    /\ threads = << >>
    /\ heap = << >>

NextFilter ==
    \/ DoConvert
    \/ DoValidateObject(FilterObjects)
    \/ DoValidateObjectWithMessages(FilterObjects)

SpecFilter == InitFilter /\ [][NextFilter]_vars

\* ---------------------------------------------- LIKE over short strings

\* The sequences of at most n of the characters
Strings(chars, n) == UNION { [1..k -> chars] : k \in 0..n }

PatternChars == { "a", "%", "_", "." }

ValueChars == { "a", "b", "\n" }

\* Criteria(filters=[Filter('f', FilterOperator.LIKE | NOT_LIKE, pattern)])
InitLike ==
    /\ \E name \in { "LIKE", "NOT_LIKE" }, pattern \in Strings(PatternChars, MaxLen) :
           /\ opname = name
           /\ criteria = Criteria(<< Filter("f", FilterOperator(name), PyStr(pattern)) >>,
                                  << >>)
    /\ pc = "build"
    /\ call = NoCall
    /\ result = NoResult
    /\ threads = << >>
    /\ heap = << >>

LikeObjects == { [f |-> PyStr(v)] : v \in Strings(ValueChars, MaxLen) }

NextLike == DoValidateObject(LikeObjects)

SpecLike == InitLike /\ [][NextLike]_vars

\* --------------------------------------------- threads calling convert

\* The columns_mapping convert works with: {} when the argument is None.
MappingOfCall == IF call.columns_mapping.given THEN call.columns_mapping.value ELSE << >>

\* Threads that call convert on the one expression.
MaxThreads == 2

\* Calls of convert one thread makes, one after the other.
MaxCalls == 2

Threads == 1..MaxThreads

\* The expressions the threads convert.
ThreadCriteria ==
    { AndCriteria(
          Criteria(<< Filter("age", FilterOperator("LESS"), PyInt(2)),
                      Filter("name", FilterOperator("NOT_EQUAL"), PyStr(<< "b" >>)) >>,
                   << Order("name", "ASC"), Order("age", "DESC") >>),
          NotCriteria(
              Criteria(<< Filter("name", FilterOperator("EQUAL"), PyStr(<< "a" >>)) >>,
                       << Order("email", "DESC") >>))),
      OrCriteria(
          Criteria(<< Filter("age", FilterOperator("LESS"), PyInt(2)) >>, << >>),
          Criteria(<< Filter("name", FilterOperator("EQUAL"), PyStr(<< "a" >>)) >>,
                   << >>)),
      Criteria(<< Filter("name", FilterOperator("EQUAL"), PyStr(<< "a" >>)),
                  Filter("email", FilterOperator("IS_NOT_NULL"), PyNone) >>,
               << >>),
      Criteria(<< >>, << Order("name", "ASC") >>) }

\* A thread that is not inside convert.
IdleThread ==
    [pc |-> "idle", stack |-> << >>, query |-> << >>, parameters |-> << >>,
     result |-> NoResult, calls |-> 0]

\* One activation of _process_filters_recursive: its criteria argument, the
\* statement it is at and its locals.
Frame(c, parameters_counter) ==
    [c |-> c, at |-> "enter", filters |-> << >>, parameters |-> << >>,
     parameters_counter |-> parameters_counter, from |-> 1,
     left_conditions |-> << >>]

\* The counter left behind by the activations of every thread, live or returned.
StartCounterShared(all) ==
    LET counters ==
            UNION { { all[t].stack[k].parameters_counter : k \in 1..Len(all[t].stack) } :
                        t \in DOMAIN all }
            \cup { IF all[t].result.err = "none" THEN DictLen(all[t].result.parameters)
                   ELSE 0 : t \in DOMAIN all }
    IN  CHOOSE n \in counters : \A m \in counters : m <= n

\* parameters_counter of the outermost activation: the parameter's default, 0,
\* whatever the other activations hold.
StartCounter(all) == 0

InitThreads ==
    /\ criteria \in ThreadCriteria
    /\ opname = ""
    /\ pc = "threads"
    /\ call \in { [fn |-> "convert", table |-> "user", columns |-> NoArgument,
                   columns_mapping |-> m] : m \in MappingArguments }
    /\ result = NoResult
    /\ threads = [t \in Threads |-> IdleThread]
    /\ heap = << >>

\* convert, up to 'parameters = {}'
ThreadCall(t) ==
    /\ threads[t].pc = "idle"
    /\ threads[t].calls < MaxCalls
    /\ LET columns == IF call.columns.given THEN call.columns.value ELSE << "*" >>
       IN  threads' = [threads EXCEPT
                          ![t].pc = "where",
                          ![t].query = << Txt("SELECT ") >> \o JoinColumns(columns)
                                       \o << Txt(" FROM "), Txt(call.table) >>,
                          ![t].parameters = << >>]
    /\ UNCHANGED <<criteria, opname, pc, call, result, heap>>

\* convert: 'if criteria.has_filters()' and the call of _process_filters
ThreadWhere(t) ==
    /\ threads[t].pc = "where"
    /\ threads' = IF HasFilters(criteria)
                  THEN [threads EXCEPT
                           ![t].pc = "walk",
                           ![t].stack = << Frame(criteria, StartCounter(threads)) >>]
                  ELSE [threads EXCEPT ![t].pc = "orders"]
    /\ UNCHANGED <<criteria, opname, pc, call, result, heap>>

\* _process_filters_recursive: the isinstance tests, and the call on the left
\* operand (on the operand of a Not)
ThreadEnter(t) ==
    /\ threads[t].pc = "walk"
    /\ LET stack == threads[t].stack
           n == Len(stack)
           top == stack[n]
       IN  /\ top.at = "enter"
           /\ threads' =
                  [threads EXCEPT ![t].stack =
                      CASE top.c.kind \in {"AndCriteria", "OrCriteria"} ->
                              [stack EXCEPT ![n].at = "left"]
                              \o << Frame(top.c.left, top.parameters_counter) >>
                        [] top.c.kind = "NotCriteria" ->
                              [stack EXCEPT ![n].at = "inner"]
                              \o << Frame(top.c.criteria, top.parameters_counter) >>
                        [] OTHER -> [stack EXCEPT ![n].at = "loop"]]
    /\ UNCHANGED <<criteria, opname, pc, call, result, heap>>

\* _process_filters_recursive: one pass of 'for filter in criteria.filters'
ThreadLoop(t) ==
    /\ threads[t].pc = "walk"
    /\ LET stack == threads[t].stack
           n == Len(stack)
           top == stack[n]
           pass == ProcessLeafFilters(<< top.c.filters[top.from] >>, 1, MappingOfCall,
                                      top.filters, top.parameters, top.parameters_counter)
       IN  /\ top.at = "loop"
           /\ threads' =
                  IF top.from > Len(top.c.filters)
                  THEN [threads EXCEPT ![t].stack[n].at = "return"]
                  ELSE IF pass.err # "none"
                  THEN [threads EXCEPT ![t].pc = "idle",
                                       ![t].stack = << >>,
                                       ![t].result = Raised(pass.err),
                                       ![t].calls = @ + 1]
                  ELSE [threads EXCEPT
                           ![t].stack[n].filters = pass.filters,
                           ![t].stack[n].parameters = pass.parameters,
                           ![t].stack[n].parameters_counter =
                               @ + DictLen(pass.parameters) - DictLen(top.parameters),
                           ![t].stack[n].from = @ + 1]
    /\ UNCHANGED <<criteria, opname, pc, call, result, heap>>

\* 'return filters, parameters' of an activation, and what its caller does with
\* the pair up to its next call or its own return
ThreadReturnFrame(t) ==
    /\ threads[t].pc = "walk"
    /\ LET stack == threads[t].stack
           n == Len(stack)
           top == stack[n]
           parent == stack[n - 1]
           counted == parent.parameters_counter + DictLen(top.parameters)
           updated == DictUpdate(parent.parameters, top.parameters)
           connective == IF parent.c.kind = "AndCriteria" THEN " AND " ELSE " OR "
       IN  /\ top.at = "return"
           /\ threads' =
                  IF n = 1
                  THEN [threads EXCEPT
                           ![t].pc = "orders",
                           ![t].stack = << >>,
                           ![t].query = @ \o << Txt(" WHERE ") >> \o top.filters,
                           ![t].parameters = top.parameters]
                  ELSE [threads EXCEPT ![t].stack =
                      CASE parent.at = "left" ->
                              SubSeq(stack, 1, n - 2)
                              \o << [parent EXCEPT !.at = "right",
                                                   !.parameters_counter = counted,
                                                   !.parameters = updated,
                                                   !.left_conditions = top.filters],
                                    Frame(parent.c.right, counted) >>
                        [] parent.at = "right" ->
                              SubSeq(stack, 1, n - 2)
                              \o << [parent EXCEPT
                                        !.at = "return",
                                        !.parameters_counter = counted,
                                        !.parameters = updated,
                                        !.filters = @ \o << Txt("(") >>
                                                    \o parent.left_conditions
                                                    \o << Txt(connective) >>
                                                    \o top.filters \o << Txt(")") >>] >>
                        [] OTHER ->
                              SubSeq(stack, 1, n - 2)
                              \o << [parent EXCEPT
                                        !.at = "return",
                                        !.parameters_counter = counted,
                                        !.parameters = updated,
                                        !.filters = @ \o << Txt("NOT (") >>
                                                    \o top.filters \o << Txt(")") >>] >>]
    /\ UNCHANGED <<criteria, opname, pc, call, result, heap>>

\* convert: 'if criteria.has_orders()' and the call of _process_orders
ThreadOrders(t) ==
    /\ threads[t].pc = "orders"
    /\ LET ordered == ProcessOrders(criteria, MappingOfCall)
       IN  threads' =
               IF ~HasOrders(criteria) THEN [threads EXCEPT ![t].pc = "return"]
               ELSE IF ordered.err # "none"
               THEN [threads EXCEPT ![t].pc = "idle",
                                    ![t].result = Raised(ordered.err),
                                    ![t].calls = @ + 1]
               ELSE [threads EXCEPT
                        ![t].pc = "return",
                        ![t].query = @ \o << Txt(" ORDER BY ") >> \o ordered.orders]
    /\ UNCHANGED <<criteria, opname, pc, call, result, heap>>

\* convert: return f'{query};', parameters
ThreadReturn(t) ==
    /\ threads[t].pc = "return"
    /\ threads' = [threads EXCEPT
                      ![t].pc = "idle",
                      ![t].result = [err |-> "none",
                                     query |-> threads[t].query \o << Txt(";") >>,
                                     parameters |-> threads[t].parameters],
                      ![t].calls = @ + 1]
    /\ UNCHANGED <<criteria, opname, pc, call, result, heap>>

NextThreads ==
    \E t \in Threads :
        \/ ThreadCall(t)
        \/ ThreadWhere(t)
        \/ ThreadEnter(t)
        \/ ThreadLoop(t)
        \/ ThreadReturnFrame(t)
        \/ ThreadOrders(t)
        \/ ThreadReturn(t)

SpecThreads == InitThreads /\ [][NextThreads]_vars

\* ------------------------------------------- Criteria objects by identity

\* Objects the heap holds at most.
MaxObjects == 7

\* A list object, a dict object, and the Criteria objects holding references.
ListObject(items) == [kind |-> "list", items |-> items]

DictObject(items) == [kind |-> "dict", items |-> items]

\* Criteria.__init__: self._filters = filters, the list passed in, not a copy
CriteriaObject(filters) == [kind |-> "Criteria", _filters |-> filters]

\* AndCriteria.__init__: self._left = left, self._right = right
AndCriteriaObject(left, right) == [kind |-> "AndCriteria", _left |-> left, _right |-> right]

\* OrCriteria.__init__
OrCriteriaObject(left, right) == [kind |-> "OrCriteria", _left |-> left, _right |-> right]

\* The ids of the Criteria objects of heap h.
CriteriaIds(h) ==
    { o \in DOMAIN h : h[o].kind \in {"Criteria", "AndCriteria", "OrCriteria"} }

\* The expression the object o of heap h stands for.
RECURSIVE Deref(_, _)
Deref(h, o) ==
    CASE h[o].kind = "Criteria" -> Criteria(h[h[o]._filters].items, << >>)
      [] h[o].kind = "AndCriteria" -> AndCriteria(Deref(h, h[o]._left), Deref(h, h[o]._right))
      [] OTHER -> OrCriteria(Deref(h, h[o]._left), Deref(h, h[o]._right))

\* self & criteria written as an in-place merge: the filters of criteria are
\* appended to the list self holds and self is returned.
CriteriaAndMerging(h, self, other) ==
    IF h[self].kind = "Criteria" /\ h[other].kind = "Criteria"
    THEN [heap |-> [h EXCEPT ![h[self]._filters].items = @ \o h[h[other]._filters].items],
          ret |-> self]
    ELSE [heap |-> Append(h, AndCriteriaObject(self, other)), ret |-> Len(h) + 1]

\* Criteria.__and__: return AndCriteria(left=self, right=criteria)
CriteriaAnd(h, self, other) ==
    [heap |-> Append(h, AndCriteriaObject(self, other)), ret |-> Len(h) + 1]

\* Criteria.__or__: return OrCriteria(left=self, right=criteria)
CriteriaOr(h, self, other) ==
    [heap |-> Append(h, OrCriteriaObject(self, other)), ret |-> Len(h) + 1]

\* The filters property: self._filters of a Criteria; of an AndCriteria or an
\* OrCriteria self.left._filters + self.right._filters, and only a Criteria has
\* the attribute _filters.
FiltersProperty(h, o) ==
    IF h[o].kind = "Criteria" THEN Returned(h[h[o]._filters].items)
    ELSE IF h[h[o]._left].kind # "Criteria" \/ h[h[o]._right].kind # "Criteria"
    THEN Raised("AttributeError")
    ELSE Returned(h[h[h[o]._left]._filters].items \o h[h[h[o]._right]._filters].items)

\* Two Leaves, each constructed over its own list, and the record.
InitHeap ==
    /\ \E obj \in { [name |-> PyStr(<< "a" >>), age |-> PyInt(1)] } :
           heap = << ListObject(<< Filter("name", FilterOperator("EQUAL"),
                                          PyStr(<< "a" >>)) >>),
                     CriteriaObject(1),
                     ListObject(<< Filter("age", FilterOperator("LESS"), PyInt(2)),
                                   Filter("name", FilterOperator("NOT_EQUAL"),
                                          PyStr(<< "b" >>)) >>),
                     CriteriaObject(3),
                     DictObject(obj) >>
    /\ criteria = NoCriteria
    /\ opname = ""
    /\ pc = "heap"
    /\ call = NoCall
    /\ result = NoResult
    /\ threads = << >>

\* self & criteria, self.add_(criteria)
HeapAnd ==
    /\ Len(heap) < MaxObjects
    /\ \E self \in CriteriaIds(heap), other \in CriteriaIds(heap),
          method \in {"__and__", "add_"} :
           LET made == CriteriaAnd(heap, self, other)
           IN  /\ heap' = made.heap
               /\ call' = [fn |-> method, self |-> self, criteria |-> other]
               /\ result' = Returned(made.ret)
    /\ UNCHANGED <<criteria, opname, pc, threads>>

\* self | criteria, self.or_(criteria)
HeapOr ==
    /\ Len(heap) < MaxObjects
    /\ \E self \in CriteriaIds(heap), other \in CriteriaIds(heap),
          method \in {"__or__", "or_"} :
           LET made == CriteriaOr(heap, self, other)
           IN  /\ heap' = made.heap
               /\ call' = [fn |-> method, self |-> self, criteria |-> other]
               /\ result' = Returned(made.ret)
    /\ UNCHANGED <<criteria, opname, pc, threads>>

\* validate_object(obj, criteria) on objects of the heap
HeapValidateObject ==
    /\ \E o \in CriteriaIds(heap), d \in { d \in DOMAIN heap : heap[d].kind = "dict" } :
           /\ call' = [fn |-> "validate_object", obj |-> d, criteria |-> o]
           /\ result' = ValidateObject(heap[d].items, Deref(heap, o))
    /\ UNCHANGED <<criteria, opname, pc, threads, heap>>

\* validate_object_with_messages(obj, criteria) on objects of the heap
HeapValidateObjectWithMessages ==
    /\ \E o \in CriteriaIds(heap), d \in { d \in DOMAIN heap : heap[d].kind = "dict" } :
           /\ call' = [fn |-> "validate_object_with_messages", obj |-> d, criteria |-> o]
           /\ result' = ValidateObjectWithMessages(heap[d].items, Deref(heap, o))
    /\ UNCHANGED <<criteria, opname, pc, threads, heap>>

\* SqlConverter.convert(criteria, 'user') on an object of the heap
HeapConvert ==
    /\ \E o \in CriteriaIds(heap) :
           /\ call' = [fn |-> "convert", criteria |-> o]
           /\ result' = Convert(Deref(heap, o), "user", NoArgument, NoArgument)
    /\ UNCHANGED <<criteria, opname, pc, threads, heap>>

\* criteria.filters on an object of the heap
HeapFilters ==
    /\ \E o \in CriteriaIds(heap) :
           /\ call' = [fn |-> "filters", criteria |-> o]
           /\ result' = FiltersProperty(heap, o)
    /\ UNCHANGED <<criteria, opname, pc, threads, heap>>

NextHeap ==
    \/ HeapAnd
    \/ HeapOr
    \/ HeapFilters
    \/ HeapValidateObject
    \/ HeapValidateObjectWithMessages
    \/ HeapConvert

SpecHeap == InitHeap /\ [][NextHeap]_vars

\* --------------------------------------------------------- parse_rules

\* Entries of the 'filters' mapping of one rule description.
MaxEntries == 2

\* The operator_map literal of _convert_operator: each key and the FilterOperator
\* attribute its value reads, in the order the literal evaluates them.
OperatorMapEntries ==
    << << "eq", "EQUAL" >>, << "ne", "NOT_EQUAL" >>, << "gt", "GREATER" >>,
       << "ge", "GREATER_OR_EQUAL" >>, << "lt", "LESS" >>, << "le", "LESS_OR_EQUAL" >>,
       << "contains", "CONTAINS" >>, << "not_contains", "NOT_CONTAINS" >>,
       << "starts_with", "STARTS_WITH" >>, << "not_starts_with", "NOT_STARTS_WITH" >>,
       << "ends_with", "ENDS_WITH" >>, << "not_ends_with", "NOT_ENDS_WITH" >>,
       << "like", "LIKE" >>, << "not_like", "NOT_LIKE" >>, << "is_null", "IS_NULL" >>,
       << "is_not_null", "IS_NOT_NULL" >>, << "between", "BETWEEN" >>,
       << "not_between", "NOT_BETWEEN" >> >>

\* The keys of the literal.
OperatorTokens == { OperatorMapEntries[k][1] : k \in DOMAIN OperatorMapEntries }

\* The attribute name the literal pairs with a key.
OperatorOfToken(token) ==
    LET k == CHOOSE k \in DOMAIN OperatorMapEntries : OperatorMapEntries[k][1] = token
    IN  OperatorMapEntries[k][2]

\* Evaluating the literal reads every attribute: one the enum lacks raises
\* AttributeError and no dict is built.
OperatorMap ==
    IF \E k \in DOMAIN OperatorMapEntries : ~HasOperator(OperatorMapEntries[k][2])
    THEN Raised("AttributeError")
    ELSE Returned([token \in OperatorTokens |-> FilterOperator(OperatorOfToken(token))])

\* _convert_operator(op_str)
ConvertOperator(op_str) ==
    LET operator_map == OperatorMap
    IN  IF operator_map.err # "none" THEN operator_map
        ELSE IF op_str \notin DOMAIN operator_map.val THEN Raised("ValueError")
        ELSE Returned(operator_map.val[op_str])

\* The loop of parse_rules over rule_data['filters'].items(), from item `from`,
\* `filters` being the list appended to so far.
RECURSIVE ParseRulesLoop(_, _, _)
ParseRulesLoop(items, from, filters) ==
    IF from > Len(items) THEN Returned(Criteria(filters, << >>))
    ELSE LET field == items[from][1]
             filter_def == items[from][2]
         IN  IF "operator" \notin DOMAIN filter_def THEN Raised("KeyError")
             ELSE LET operator == ConvertOperator(filter_def["operator"])
                  IN  IF operator.err # "none" THEN operator
                      ELSE IF "value" \notin DOMAIN filter_def THEN Raised("KeyError")
                      ELSE LET filter == Filter(field, operator.val, filter_def["value"])
                               built ==
                                   IF "message" \in DOMAIN filter_def
                                   THEN [filter EXCEPT !.message = filter_def["message"]]
                                   ELSE filter
                           IN  ParseRulesLoop(items, from + 1, Append(filters, built))

\* parse_rules(rule_data): a dict is the sequence of its items, in insertion order.
ParseRules(rule_data) ==
    IF "filters" \notin DOMAIN rule_data THEN Raised("KeyError")
    ELSE ParseRulesLoop(rule_data["filters"], 1, << >>)

\* The field names of a rule description.
RuleFields == { "name", "age", "email" }

\* The filter definitions of a rule description: a known or an unknown operator
\* token, with and without a message, and one without an operator.
RuleDefinitions ==
    { [operator |-> token, value |-> PyInt(1)] :
          token \in { "eq", "between", "not_starts_with", "equals" } }
    \cup { [operator |-> token, value |-> PyInt(1), message |-> "must match"] :
               token \in { "eq", "between", "not_starts_with", "equals" } }
    \cup { [value |-> PyInt(1)] }

\* The items of a dict of at most n entries: no key twice.
RuleItems(n) ==
    { items \in UNION { [1..k -> RuleFields \X RuleDefinitions] : k \in 0..n } :
          \A j, k \in DOMAIN items : j # k => items[j][1] # items[k][1] }

\* A rule description read from JSON, not yet parsed.
InitRules ==
    /\ call \in { [fn |-> "parse_rules", rule_data |-> rule_data] :
                      rule_data \in { << >> } \cup
                          { [filters |-> items] : items \in RuleItems(MaxEntries) } }
    /\ criteria = NoCriteria
    /\ opname = ""
    /\ pc = "rules"
    /\ result = NoResult
    /\ threads = << >>
    /\ heap = << >>

\* criteria = parse_rules(rule_data)
DoParseRules ==
    /\ pc = "rules"
    /\ result' = ParseRules(call.rule_data)
    /\ criteria' = IF result'.err = "none" THEN result'.val ELSE NoCriteria
    /\ pc' = "parsed"
    /\ UNCHANGED <<opname, call, threads, heap>>

NextRules == DoParseRules

SpecRules == InitRules /\ [][NextRules]_vars

\* ------------------------------------------ one Leaf of several filters

\* Filters in one Leaf.
MaxFilters == 3

\* The filters a Leaf is built from.
LeafFilterPool ==
    { Filter("name", FilterOperator("EQUAL"), PyStr(<< "a" >>)),
      Filter("age", FilterOperator("LESS"), PyInt(2)),
      Filter("name", FilterOperator("LIKE"), PyStr(<< "a", "%" >>)),
      Filter("email", FilterOperator("IS_NULL"), PyNone),
      Filter("age", FilterOperator("BETWEEN"), PyList(<< 1, 2 >>)) }

\* Criteria(filters=[f1, .., fk])
InitLeaf ==
    /\ criteria \in { Criteria(filters, << >>) :
                          filters \in UNION { [1..k -> LeafFilterPool] : k \in 1..MaxFilters } }
    /\ opname = ""
    /\ pc = "build"
    /\ call = NoCall
    /\ result = NoResult
    /\ threads = << >>
    /\ heap = << >>

NextLeaf ==
    \/ DoConvert
    \/ DoValidateObject(TreeObjects)

SpecLeaf == InitLeaf /\ [][NextLeaf]_vars

\* =============================================================== claims

\* The numbers n whose placeholder '%(parameter_<n>)s' occurs in the text.
PlaceholderIndexes(text) ==
    { text[k].n : k \in { j \in DOMAIN text : text[j].k = "param" } }

\* How many times the placeholder of n occurs in the text.
Occurrences(text, n) == Cardinality({ k \in DOMAIN text : text[k] = Placeholder(n) })

\* The parameters a filter is to consume.
ParameterCount(filter) ==
    CASE filter.operator \in {FilterOperator("IS_NULL"), FilterOperator("IS_NOT_NULL")} -> 0
      [] filter.operator \in {FilterOperator("BETWEEN"), FilterOperator("NOT_BETWEEN")} -> 2
      [] OTHER -> 1

RECURSIVE SumParameterCounts(_)
SumParameterCounts(filters) ==
    IF filters = << >> THEN 0
    ELSE ParameterCount(filters[1]) + SumParameterCounts(Tail(filters))

\* 'SELECT <columns> FROM <table>' of the call made.
SelectOfCall ==
    << Txt("SELECT ") >>
    \o JoinColumns(IF call.columns.given THEN call.columns.value ELSE << "*" >>)
    \o << Txt(" FROM "), Txt(call.table) >>

\* C1: for every expression with well-formed filters, convert returns a text and
\* a parameter mapping; the placeholders of the text are the keys of the mapping,
\* each occurs once, and the keys are parameter_0 .. parameter_{k-1}, k the sum of
\* the filters' parameter counts (0 for IS_NULL/IS_NOT_NULL, 2 for BETWEEN/
\* NOT_BETWEEN, 1 otherwise).
C1_ParametersMatchPlaceholders ==
    pc = "converted" =>
        /\ result.err = "none"
        /\ PlaceholderIndexes(result.query) = DOMAIN result.parameters
        /\ \A n \in DOMAIN result.parameters : Occurrences(result.query, n) = 1
        /\ DOMAIN result.parameters = 0..(SumParameterCounts(LeafFilters(criteria)) - 1)

\* Whether _process_filters_recursive, entered at c with the counter at n, renders
\* every And, Or and Not node below as the claim C2 says.
RECURSIVE RendersAsComposed(_, _, _)
RendersAsComposed(c, columns_mapping, n) ==
    LET node == ProcessFiltersRecursive(c, columns_mapping, n)
    IN  CASE c.kind \in {"AndCriteria", "OrCriteria"} ->
                LET l == ProcessFiltersRecursive(c.left, columns_mapping, n)
                    used == SumParameterCounts(LeafFilters(c.left))
                    r == ProcessFiltersRecursive(c.right, columns_mapping, n + used)
                    connective == IF c.kind = "AndCriteria" THEN " AND " ELSE " OR "
                IN  /\ node.err = "none" /\ l.err = "none" /\ r.err = "none"
                    /\ node.filters = << Txt("(") >> \o l.filters \o << Txt(connective) >>
                                      \o r.filters \o << Txt(")") >>
                    /\ \A i \in PlaceholderIndexes(l.filters),
                          j \in PlaceholderIndexes(r.filters) : i < j
                    /\ \A j \in PlaceholderIndexes(r.filters) : j >= n + used
                    /\ PlaceholderIndexes(r.filters) # {}
                           => n + used \in PlaceholderIndexes(r.filters)
                    /\ RendersAsComposed(c.left, columns_mapping, n)
                    /\ RendersAsComposed(c.right, columns_mapping, n + used)
          [] c.kind = "NotCriteria" ->
                LET e == ProcessFiltersRecursive(c.criteria, columns_mapping, n)
                IN  /\ node.err = "none" /\ e.err = "none"
                    /\ node.filters = << Txt("NOT (") >> \o e.filters \o << Txt(")") >>
                    /\ RendersAsComposed(c.criteria, columns_mapping, n)
          [] OTHER -> TRUE

\* C2: every And{l,r}, Or{l,r} and Not{e} node, at any depth, renders as
\* '(' render(l) ' AND ' render(r) ')', '(' render(l) ' OR ' render(r) ')' and
\* 'NOT (' render(e) ')'; the placeholders of l are numbered below those of r, and
\* r starts at the node's first index plus the parameters l consumed.
C2_NodesRenderComposed ==
    (pc = "converted" /\ HasFilters(criteria))
        => RendersAsComposed(criteria, MappingOfCall, 0)

\* The fragment the operator named `name` is to render for the field, its first
\* placeholder numbered n.
ExpectedFragment(name, field, n) ==
    CASE name \in {"BETWEEN", "NOT_BETWEEN"} ->
            << Txt(field), Txt(IF name = "BETWEEN" THEN " BETWEEN " ELSE " NOT BETWEEN "),
               Placeholder(n), Txt(" AND "), Placeholder(n + 1) >>
      [] name = "IS_NULL" -> << Txt(field), Txt(" IS NULL") >>
      [] name = "IS_NOT_NULL" -> << Txt(field), Txt(" IS NOT NULL") >>
      [] OTHER -> OneParameterFragment(name, field, Placeholder(n))

\* The parameters the operator named `name` is to bind for the value.
ExpectedParameters(name, value) ==
    CASE name \in {"BETWEEN", "NOT_BETWEEN"} ->
            (0 :> PyInt(value.l[1])) @@ (1 :> PyInt(value.l[2]))
      [] name \in {"IS_NULL", "IS_NOT_NULL"} -> << >>
      [] OTHER -> (0 :> value)

\* C3: a Leaf of one filter renders the fragment fixed for the filter's operator
\* and binds the fixed number of parameters: one placeholder bound to the value
\* for the comparison and pattern operators, two bound to value[0] and value[1]
\* for BETWEEN / NOT_BETWEEN (a list or a tuple alike), none for IS_NULL /
\* IS_NOT_NULL.
C3_LeafRendersOperatorTemplate ==
    LET filter == criteria.filters[1]
        well_formed == opname \in {"BETWEEN", "NOT_BETWEEN"}
                           => filter.value.t \in {"list", "tuple"} /\ Len(filter.value.l) = 2
    IN  (pc = "converted" /\ opname \notin {"IN", "NOT_IN"} /\ well_formed) =>
            /\ result.err = "none"
            /\ result.query = SelectOfCall \o << Txt(" WHERE ") >>
                              \o ExpectedFragment(opname, filter.field, 0)
                              \o << Txt(";") >>
            /\ result.parameters = ExpectedParameters(opname, filter.value)

\* C4: the text convert returns is 'SELECT <columns joined by ", "> FROM <table>'
\* (columns '*' when not given), then ' WHERE <condition>' iff has_filters(), then
\* ' ORDER BY <order-list>' iff has_orders(), then ';'; without filters convert
\* returns and the parameter mapping is empty.
C4_QueryShape ==
    pc = "converted" =>
        /\ ~HasFilters(criteria) => result.err = "none" /\ result.parameters = << >>
        /\ result.err = "none" =>
               result.query =
                   SelectOfCall
                   \o (IF HasFilters(criteria)
                       THEN << Txt(" WHERE ") >>
                            \o ProcessFilters(criteria, MappingOfCall).filters
                       ELSE << >>)
                   \o (IF HasOrders(criteria)
                       THEN << Txt(" ORDER BY ") >>
                            \o ProcessOrders(criteria, MappingOfCall).orders
                       ELSE << >>)
                   \o << Txt(";") >>

\* C4's case: a query with both clauses and the default columns was returned.
C4_Witness ==
    /\ pc = "converted" /\ result.err = "none"
    /\ HasFilters(criteria) /\ HasOrders(criteria) /\ ~call.columns.given
    /\ criteria.kind = "AndCriteria"

\* C5: for an expression without filters (And/Or/Not trees of filterless Leaves
\* included) validate_object returns True and validate_object_with_messages
\* returns (True, []), whatever the record.
C5_NoFiltersIsValid ==
    ~HasFilters(criteria) =>
        /\ pc = "validated" => result = Returned(TRUE)
        /\ pc = "validated_with_messages"
               => result = [err |-> "none", val |-> TRUE, errors |-> << >>]

\* C5's case: a Not over a filterless expression was validated against a record
\* that holds values.
C5_Witness ==
    /\ pc = "validated" /\ ~HasFilters(criteria)
    /\ criteria.kind = "NotCriteria" /\ call.obj # << >>

\* C6 as claimed: validate_object(record, Not{e}) is the negation of
\* validate_object(record, e) for every e whose evaluation does not raise, an e
\* without filters included.
C6_NotIsNegation ==
    (pc = "validated" /\ criteria.kind = "NotCriteria") =>
        LET inner == ValidateObject(call.obj, criteria.criteria)
        IN  inner.err = "none" => result = Returned(~inner.val)

\* C6 as amended: validate_object(record, Not{e}) is the negation of
\* validate_object(record, e) for every e that has a filter and whose evaluation
\* does not raise; for an e without filters both are True.
C6_NotIsNegationWithFilters ==
    (pc = "validated" /\ criteria.kind = "NotCriteria") =>
        LET inner == ValidateObject(call.obj, criteria.criteria)
        IN  inner.err = "none" =>
                IF HasFilters(criteria.criteria) THEN result = Returned(~inner.val)
                ELSE result = Returned(TRUE) /\ inner = Returned(TRUE)

\* C6's case: a Not over an expression with filters that the record fails.
C6_Witness ==
    /\ pc = "validated" /\ criteria.kind = "NotCriteria"
    /\ HasFilters(criteria.criteria)
    /\ ValidateObject(call.obj, criteria.criteria) = Returned(FALSE)
    /\ result = Returned(TRUE)

\* Whether the record's value for the filter's field satisfies the filter.
Satisfies(obj, filter) ==
    EvaluateFilter(DictGet(obj, filter.field, PyNone), filter) = Returned(TRUE)

\* C7: where evaluating both operands does not raise, validate_object of And{l,r}
\* is validate_object(l) and validate_object(r), of Or{l,r} their or; of a Leaf it
\* is True iff the record satisfies every filter of the Leaf.
C7_AndOrLeafSemantics ==
    pc = "validated" =>
        CASE criteria.kind \in {"AndCriteria", "OrCriteria"} ->
                LET l == ValidateObject(call.obj, criteria.left)
                    r == ValidateObject(call.obj, criteria.right)
                IN  (l.err = "none" /\ r.err = "none") =>
                        result = Returned(IF criteria.kind = "AndCriteria"
                                          THEN l.val /\ r.val ELSE l.val \/ r.val)
          [] criteria.kind = "Criteria" ->
                result.err = "none" =>
                    result.val = \A k \in DOMAIN criteria.filters :
                                     Satisfies(call.obj, criteria.filters[k])
          [] OTHER -> TRUE

\* C7's case: an Or whose left operand the record fails and whose right operand
\* it meets.
C7_Witness ==
    /\ pc = "validated" /\ criteria.kind = "OrCriteria"
    /\ HasFilters(criteria.left)
    /\ ValidateObject(call.obj, criteria.left) = Returned(FALSE)
    /\ ValidateObject(call.obj, criteria.right) = Returned(TRUE)
    /\ result = Returned(TRUE)

\* C8: a field that is absent or None is never an error: IS_NULL is True,
\* IS_NOT_NULL is False and every other operator is False; for a value that is not
\* None IS_NULL is False and IS_NOT_NULL is True.
C8_NullPolicy ==
    pc = "validated" =>
        LET filter == criteria.filters[1]
            field_value == DictGet(call.obj, filter.field, PyNone)
        IN  IF field_value = PyNone
            THEN result = Returned(opname = "IS_NULL")
            ELSE /\ opname = "IS_NULL" => result = Returned(FALSE)
                 /\ opname = "IS_NOT_NULL" => result = Returned(TRUE)

\* C8's case: a negated operator, with a value of the wrong shape, met a record
\* without the field.
C8_Witness ==
    /\ pc = "validated" /\ opname = "NOT_BETWEEN"
    /\ criteria.filters[1].value = PyInt(1)
    /\ call.obj = << >>
    /\ result = Returned(FALSE)

\* Whether pattern[p..], read as a SQL LIKE pattern, matches the whole of
\* chars[k..]: '%' any run of characters, '_' any one character, any other
\* character itself.
RECURSIVE SqlLikeMatch(_, _, _, _)
SqlLikeMatch(pattern, p, chars, k) ==
    IF p > Len(pattern) THEN k > Len(chars)
    ELSE IF pattern[p] = "%"
    THEN \/ SqlLikeMatch(pattern, p + 1, chars, k)
         \/ k <= Len(chars) /\ SqlLikeMatch(pattern, p, chars, k + 1)
    ELSE /\ k <= Len(chars)
         /\ pattern[p] = "_" \/ pattern[p] = chars[k]
         /\ SqlLikeMatch(pattern, p + 1, chars, k + 1)

\* C9: LIKE(v, x) is True iff the whole of v matches x read as a SQL LIKE
\* pattern ('%' any run, '_' one character, every other character only itself);
\* NOT_LIKE is the negation.
C9_LikeIsSqlLike ==
    pc = "validated" =>
        LET matches == SqlLikeMatch(criteria.filters[1].value.s, 1, call.obj.f.s, 1)
        IN  result = Returned(IF opname = "LIKE" THEN matches ELSE ~matches)

\* C10: a Filter built with CONTAINS, STARTS_WITH or ENDS_WITH is not treated as
\* LIKE, nor one built with NOT_CONTAINS as NOT_LIKE: the evaluator's CONTAINS is
\* the substring test, STARTS_WITH / ENDS_WITH the prefix / suffix tests, and the
\* SQL compiler renders each with its own template.
C10_VariantsKeptDistinct ==
    LET filter == criteria.filters[1]
        field_value == DictGet(call.obj, filter.field, PyNone)
    IN  /\ (pc = "validated" /\ field_value.t = "str" /\ filter.value.t = "str") =>
               /\ opname = "CONTAINS" => result = StrContains(field_value, filter.value)
               /\ opname = "NOT_CONTAINS"
                      => result = Negated(StrContains(field_value, filter.value))
               /\ opname = "STARTS_WITH" => result = StartsWith(field_value, filter.value)
               /\ opname = "ENDS_WITH" => result = EndsWith(field_value, filter.value)
        /\ (pc = "converted"
               /\ opname \in {"CONTAINS", "NOT_CONTAINS", "STARTS_WITH", "ENDS_WITH"}) =>
               /\ result.err = "none"
               /\ result.query = SelectOfCall \o << Txt(" WHERE ") >>
                                 \o ExpectedFragment(opname, filter.field, 0)
                                 \o << Txt(";") >>

\* A BETWEEN / NOT_BETWEEN filter whose value is not a list or tuple of two.
MalformedRange(filter) ==
    /\ filter.operator \in {FilterOperator("BETWEEN"), FilterOperator("NOT_BETWEEN")}
    /\ ~(filter.value.t \in {"list", "tuple"} /\ Len(filter.value.l) = 2)

\* Whether some Leaf below holds a malformed range filter.
ContainsMalformedRange(c) ==
    \E k \in DOMAIN LeafFilters(c) : MalformedRange(LeafFilters(c)[k])

\* Whether evaluating c against obj, left operand first and stopping at the first
\* operand or filter that settles the outcome, comes to a filter that raises.
ReachesRaise(obj, c) ==
    CASE ~HasFilters(c) -> FALSE
      [] c.kind = "Criteria" ->
            \E k \in DOMAIN c.filters :
                /\ EvaluateFilter(DictGet(obj, c.filters[k].field, PyNone),
                                  c.filters[k]).err # "none"
                /\ \A j \in 1..(k - 1) : Satisfies(obj, c.filters[j])
      [] c.kind = "AndCriteria" ->
            \/ ValidateObject(obj, c.left).err # "none"
            \/ /\ ValidateObject(obj, c.left) = Returned(TRUE)
               /\ ValidateObject(obj, c.right).err # "none"
      [] c.kind = "OrCriteria" ->
            \/ ValidateObject(obj, c.left).err # "none"
            \/ /\ ValidateObject(obj, c.left) = Returned(FALSE)
               /\ ValidateObject(obj, c.right).err # "none"
      [] OTHER -> ValidateObject(obj, c.criteria).err # "none"

\* C11 as claimed: validate_object raises, whatever the record, for every
\* expression that holds a BETWEEN / NOT_BETWEEN filter whose value is not a list
\* or tuple of two, wherever the filter sits in the tree.
C11_MalformedRangeAlwaysRaises ==
    (pc = "validated" /\ ContainsMalformedRange(criteria)) => result.err # "none"

\* C11 as amended: a malformed BETWEEN / NOT_BETWEEN filter raises on a field
\* value that is not None and is False on a field that is absent or None; and
\* validate_object raises exactly when evaluation, left operand first and stopping
\* at the first failed filter of a Leaf and at the operand that settles an And /
\* Or, comes to a filter that raises.
C11_MalformedRangeRaisesWhenReached ==
    pc = "validated" =>
        /\ \A k \in DOMAIN LeafFilters(criteria) :
               LET filter == LeafFilters(criteria)[k]
                   field_value == DictGet(call.obj, filter.field, PyNone)
               IN  MalformedRange(filter) =>
                       IF field_value = PyNone
                       THEN EvaluateFilter(field_value, filter) = Returned(FALSE)
                       ELSE EvaluateFilter(field_value, filter).err # "none"
        /\ (result.err # "none") = ReachesRaise(call.obj, criteria)

\* C11's case: the malformed filter sits in the right operand of an And, the
\* record meets the left operand, and the call raised ValueError.
C11_Witness ==
    /\ pc = "validated" /\ criteria.kind = "AndCriteria"
    /\ HasFilters(criteria.left) /\ ~ContainsMalformedRange(criteria.left)
    /\ ContainsMalformedRange(criteria.right)
    /\ result = Raised("ValueError")

\* C12: convert raises, and returns no query, for a Leaf whose BETWEEN or
\* NOT_BETWEEN filter has a value that is not a list or tuple of exactly two (a
\* scalar, a sequence of one or of three, a string): no query with two parameters
\* cut out of the value is returned.
C12_MalformedRangeNotConverted ==
    (pc = "converted" /\ opname \in {"BETWEEN", "NOT_BETWEEN"}
                      /\ MalformedRange(criteria.filters[1]))
        => result.err # "none"

\* C12's case: convert was called on a BETWEEN filter holding a list of three,
\* and raised.
C12_Witness ==
    /\ pc = "converted" /\ opname = "BETWEEN"
    /\ criteria.filters[1].value = PyList(<< 1, 2, 3 >>)
    /\ result.err # "none"

\* Whether the value has the shape the operator named `name` expects: a list or
\* tuple of two for BETWEEN / NOT_BETWEEN, a list or tuple for IN / NOT_IN, a
\* string for the pattern operators, a number or a string for the comparisons,
\* anything for IS_NULL / IS_NOT_NULL.
WellFormedValue(name, value) ==
    CASE name \in {"IS_NULL", "IS_NOT_NULL"} -> TRUE
      [] name \in {"BETWEEN", "NOT_BETWEEN"} ->
            value.t \in {"list", "tuple"} /\ Len(value.l) = 2
      [] name \in {"IN", "NOT_IN"} -> value.t \in {"list", "tuple"}
      [] name \in {"EQUAL", "NOT_EQUAL", "GREATER", "GREATER_OR_EQUAL", "LESS",
                   "LESS_OR_EQUAL"} -> value.t \in {"int", "str"}
      [] OTHER -> value.t = "str"

\* v in x, x a list or tuple of numbers
MemberOf(v, x) == v.t = "int" /\ \E k \in DOMAIN x.l : x.l[k] = v.i

\* C13: for every operator of the catalog, every well-formed filter and every
\* field value that is not None, _evaluate_filter does not end in its final
\* 'Unsupported filter operator' raise (the only ValueError a well-formed filter
\* can meet) and convert does not end in the assert_never branch; IN is the test
\* of v being an element of x, NOT_IN its negation.
C13_UnsupportedUnreachable ==
    (pc \in {"validated", "converted"}
         /\ WellFormedValue(opname, criteria.filters[1].value)) =>
        LET filter == criteria.filters[1]
            field_value == DictGet(call.obj, filter.field, PyNone)
        IN  /\ pc = "converted" => result # Raised("AssertionError")
            /\ (pc = "validated" /\ field_value # PyNone) =>
                   /\ result # Raised("ValueError")
                   /\ opname = "IN" => result = Returned(MemberOf(field_value, filter.value))
                   /\ opname = "NOT_IN"
                          => result = Returned(~MemberOf(field_value, filter.value))

\* The expression with every Filter's and every Order's field replaced by the
\* name columns_mapping gives it, a field that is not a key left as it is.
RECURSIVE RenameFields(_, _)
RenameFields(c, columns_mapping) ==
    CASE c.kind = "Criteria" ->
            Criteria([k \in DOMAIN c.filters |->
                          [c.filters[k] EXCEPT !.field = DictGet(columns_mapping, @, @)]],
                     [k \in DOMAIN c.orders |->
                          [c.orders[k] EXCEPT !.field = DictGet(columns_mapping, @, @)]])
      [] c.kind = "NotCriteria" -> NotCriteria(RenameFields(c.criteria, columns_mapping))
      [] c.kind = "AndCriteria" ->
            AndCriteria(RenameFields(c.left, columns_mapping),
                        RenameFields(c.right, columns_mapping))
      [] OTHER -> OrCriteria(RenameFields(c.left, columns_mapping),
                             RenameFields(c.right, columns_mapping))

\* C14: convert with a columns_mapping gives what convert without one gives for
\* the expression whose Filter and Order fields are renamed by the mapping (a
\* field that is not a key unchanged), in the WHERE and the ORDER BY clause alike;
\* the selected columns and the table name are emitted as passed, also when one
\* of them is a key of the mapping.
C14_MappingRenamesFieldsOnly ==
    pc = "converted" =>
        /\ result = Convert(RenameFields(criteria, MappingOfCall), call.table,
                            call.columns, NoArgument)
        /\ result.err = "none" =>
               SubSeq(result.query, 1, Len(SelectOfCall)) = SelectOfCall

\* C14's case: a query was returned for a Leaf filtering and ordering on a mapped
\* field and on an unmapped one, with a mapped name among the selected columns
\* and the table name a key of the mapping.
C14_Witness ==
    /\ pc = "converted" /\ result.err = "none"
    /\ call.columns_mapping.given /\ call.columns.given
    /\ call.table \in DOMAIN MappingOfCall
    /\ \E k \in DOMAIN call.columns.value : call.columns.value[k] \in DOMAIN MappingOfCall
    /\ \E k \in DOMAIN LeafFilters(criteria) :
           LeafFilters(criteria)[k].field \in DOMAIN MappingOfCall
    /\ \E k \in DOMAIN LeafFilters(criteria) :
           LeafFilters(criteria)[k].field \notin DOMAIN MappingOfCall
    /\ \E k \in DOMAIN FlatOrders(criteria) :
           FlatOrders(criteria)[k].field \in DOMAIN MappingOfCall
    /\ \E k \in DOMAIN FlatOrders(criteria) :
           FlatOrders(criteria)[k].field \notin DOMAIN MappingOfCall

\* The Orders of the Leaves below c, the left operand's before the right
\* operand's, each Leaf's in the order it holds them.
RECURSIVE DepthFirstOrders(_)
DepthFirstOrders(c) ==
    IF c.kind = "Criteria" THEN c.orders
    ELSE IF c.kind = "NotCriteria" THEN DepthFirstOrders(c.criteria)
    ELSE DepthFirstOrders(c.left) \o DepthFirstOrders(c.right)

\* '<mapped-field> ASC' or '<mapped-field> DESC' for each order, ', ' between two.
RECURSIVE OrderList(_, _)
OrderList(orders, columns_mapping) ==
    IF orders = << >> THEN << >>
    ELSE << Txt(DictGet(columns_mapping, orders[1].field, orders[1].field)),
            Txt(IF orders[1].direction = "ASC" THEN " ASC" ELSE " DESC") >>
         \o (IF Len(orders) = 1 THEN << >> ELSE << Txt(", ") >>)
         \o OrderList(Tail(orders), columns_mapping)

\* C15: for an expression with at least one Order, the list _process_orders
\* builds is the Orders of all Leaves below, depth-first and left operand before
\* right, each as '<mapped-field> ASC' or '<mapped-field> DESC', joined by ', '
\* with no separator before the first or after the last; the query convert
\* returns ends in ' ORDER BY ', that list and ';'.
C15_OrderByList ==
    (pc = "converted" /\ HasOrders(criteria)) =>
        LET expected == OrderList(DepthFirstOrders(criteria), MappingOfCall)
            tail == << Txt(" ORDER BY ") >> \o expected \o << Txt(";") >>
        IN  /\ ProcessOrders(criteria, MappingOfCall)
                   = [err |-> "none", orders |-> expected]
            /\ result.err = "none" =>
                   /\ Len(result.query) > Len(tail)
                   /\ SubSeq(result.query, Len(result.query) - Len(tail) + 1,
                             Len(result.query)) = tail

\* C15's case: a query was returned for an And whose operands both hold Orders,
\* one of them two, with a mapped field among them.
C15_Witness ==
    /\ pc = "converted" /\ result.err = "none"
    /\ criteria.kind = "AndCriteria"
    /\ Len(DepthFirstOrders(criteria.left)) = 2
    /\ Len(DepthFirstOrders(criteria.right)) = 1
    /\ DepthFirstOrders(criteria.left) # DepthFirstOrders(criteria.right)
    /\ call.columns_mapping.given

\* C16: every call of convert, by whichever thread and however the calls of the
\* threads interleave, returns (or raises) what convert gives for the expression
\* and the arguments on its own; the calls agree with one another, and the
\* parameters of a call are numbered from parameter_0 on without a gap.
C16_ConvertReentrant ==
    pc = "threads" =>
        \A t \in Threads :
            threads[t].result # NoResult =>
                /\ threads[t].result
                       = Convert(criteria, call.table, call.columns, call.columns_mapping)
                /\ \A u \in Threads :
                       threads[u].result # NoResult
                           => threads[u].result = threads[t].result
                /\ threads[t].result.err = "none" =>
                       DOMAIN threads[t].result.parameters
                           = 0..(DictLen(threads[t].result.parameters) - 1)

\* C16's case: a thread that already returned from one call is inside a second,
\* two activations deep, while another thread that has allocated a parameter is
\* inside its own call; the first call returned parameters.
C16_Witness ==
    /\ pc = "threads"
    /\ \E t, u \in Threads :
           /\ t # u
           /\ threads[t].calls = 1 /\ threads[t].pc = "walk"
           /\ Len(threads[t].stack) >= 2
           /\ threads[t].result.err = "none"
           /\ threads[t].result.parameters # << >>
           /\ threads[u].pc = "walk"
           /\ threads[u].stack[Len(threads[u].stack)].parameters # << >>

\* The combinator methods.
CombinatorMethods == {"__and__", "add_", "__or__", "or_"}

\* What one step may do to the objects: every object that exists stays as it is;
\* a combinator adds exactly one object, the node it returns, whose _left and
\* _right are the operands; a backend call adds nothing.
StepKeepsObjects ==
    /\ \A o \in DOMAIN heap : o \in DOMAIN heap' /\ heap'[o] = heap[o]
    /\ call'.fn \in CombinatorMethods =>
           /\ Len(heap') = Len(heap) + 1
           /\ result' = Returned(Len(heap'))
           /\ heap'[Len(heap')]._left = call'.self
           /\ heap'[Len(heap')]._right = call'.criteria
           /\ heap'[Len(heap')].kind
                  = IF call'.fn \in {"__and__", "add_"} THEN "AndCriteria" ELSE "OrCriteria"
    /\ call'.fn \notin CombinatorMethods => heap' = heap

\* C17: no step changes an object that exists: &, add_, |, or_ return a new node
\* referencing their operands and leave both operands as they are, and
\* validate_object, validate_object_with_messages and convert change neither the
\* expression nor the record, so that a Leaf used in several combinations stands
\* for the same filters in each.
C17_NeverMutated == [][pc = "heap" => StepKeepsObjects]_vars

\* C17's case: one Leaf is an operand of two nodes, one of them built with add_
\* or or_ on a node, and a backend was called on the second node.
C17_Witness ==
    /\ pc = "heap" /\ call.fn = "validate_object"
    /\ \E m, n \in CriteriaIds(heap) :
           /\ m < n /\ call.criteria = n
           /\ heap[m].kind = "AndCriteria" /\ heap[n].kind = "OrCriteria"
           /\ heap[m]._left = 2 /\ heap[n]._left = m /\ heap[n]._right = 2

\* C18: for an expression of any depth the filters property returns, without
\* raising, the filters of all Leaves below, the left operand's before the right
\* operand's; has_filters() is true iff that list is not empty.
C18_FiltersFlattened ==
    (pc = "heap" /\ call.fn = "filters") =>
        LET e == Deref(heap, call.criteria)
        IN  /\ result = Returned(LeafFilters(e))
            /\ HasFilters(e) <=> result.val # << >>

\* c1 & c2 for two Leaves holding the given filter lists, as objects: the heap
\* and the node returned.
AndOfLeaves(filters1, filters2) ==
    CriteriaAnd(<< ListObject(filters1), CriteriaObject(1),
                   ListObject(filters2), CriteriaObject(3) >>, 2, 4)

\* C19: for two Leaves c1 and c2, c1 & c2 and the one Leaf
\* Criteria(filters=c1.filters + c2.filters) have the same filters list, and
\* validate_object gives the same outcome for both, the same boolean or the same
\* error, for every record.
C19_AndOfLeavesIsMergedLeaf ==
    (pc = "validated" /\ criteria.kind = "AndCriteria"
         /\ criteria.left.kind = "Criteria" /\ criteria.right.kind = "Criteria") =>
        LET merged == criteria.left.filters \o criteria.right.filters
            made == AndOfLeaves(criteria.left.filters, criteria.right.filters)
        IN  /\ result = ValidateObject(call.obj, Criteria(merged, << >>))
            /\ FiltersProperty(made.heap, made.ret) = Returned(merged)
            /\ FiltersProperty(<< ListObject(merged), CriteriaObject(1) >>, 2)
                   = Returned(merged)

\* C19's case: the record meets the filters of c1 and fails one of c2, both
\* Leaves holding filters, and c1 & c2 validated False.
C19_Witness ==
    /\ pc = "validated" /\ criteria.kind = "AndCriteria"
    /\ criteria.left.kind = "Criteria" /\ criteria.right.kind = "Criteria"
    /\ criteria.left.filters # << >> /\ criteria.right.filters # << >>
    /\ ValidateObject(call.obj, criteria.left) = Returned(TRUE)
    /\ result = Returned(FALSE)

\* The rule description of the call has a 'filters' mapping whose definitions all
\* have an operator and a value.
RuleWellFormed ==
    /\ "filters" \in DOMAIN call.rule_data
    /\ \A k \in DOMAIN call.rule_data["filters"] :
           { "operator", "value" } \subseteq DOMAIN call.rule_data["filters"][k][2]

\* C20: parse_rules fails, returning no Criteria, when some definition carries an
\* operator token outside the token table; when every token is in the table it
\* returns one Leaf with one Filter per entry, in the mapping's order, carrying the
\* entry's field, the operator its token maps to and its value, and a message
\* exactly when the entry has a 'message' key.
C20_ParseRules ==
    (pc = "parsed" /\ RuleWellFormed) =>
        LET items == call.rule_data["filters"]
        IN  IF \E k \in DOMAIN items : items[k][2]["operator"] \notin OperatorTokens
            THEN result.err # "none" /\ criteria = NoCriteria
            ELSE /\ result.err = "none"
                 /\ criteria = result.val
                 /\ criteria.kind = "Criteria"
                 /\ Len(criteria.filters) = Len(items)
                 /\ \A k \in DOMAIN items :
                        LET filter == criteria.filters[k]
                            filter_def == items[k][2]
                        IN  /\ filter.field = items[k][1]
                            /\ filter.operator = OperatorOfToken(filter_def["operator"])
                            /\ filter.value = filter_def["value"]
                            /\ filter.message =
                                   IF "message" \in DOMAIN filter_def
                                   THEN filter_def["message"] ELSE NoMessage

\* c with the value of every filter whose depth-first number (offset + 1 ..) is in
\* `changed` replaced: a range filter gets another pair, any other filter a value
\* of another type.
RECURSIVE Revalued(_, _, _)
Revalued(c, changed, offset) ==
    CASE c.kind = "Criteria" ->
            IF c.filters = << >> THEN c
            ELSE [c EXCEPT !.filters =
                     [k \in 1..Len(c.filters) |->
                         IF offset + k \notin changed THEN c.filters[k]
                         ELSE [c.filters[k] EXCEPT !.value =
                                  IF c.filters[k].operator \in
                                         {FilterOperator("BETWEEN"), FilterOperator("NOT_BETWEEN")}
                                  THEN PyTuple(<< 3, 4 >>)
                                  ELSE IF c.filters[k].value.t = "str" THEN PyInt(7)
                                  ELSE PyStr(<< "z", "z" >>)]]]
      [] c.kind = "NotCriteria" -> NotCriteria(Revalued(c.criteria, changed, offset))
      [] OTHER ->
            [c EXCEPT !.left = Revalued(c.left, changed, offset),
                      !.right = Revalued(c.right, changed,
                                         offset + Len(LeafFilters(c.left)))]

\* C21: two expressions of the same shape, fields and operators that differ only
\* in filter values (range values well-formed in both) convert alike: both raise
\* the same error, or both return the same query text and parameter mappings with
\* the same keys.
C21_ValuesNotInText ==
    (pc = "converted" /\ ~ContainsMalformedRange(criteria)) =>
        \A changed \in SUBSET (1..Len(LeafFilters(criteria))) :
            LET other == Convert(Revalued(criteria, changed, 0), call.table,
                                 call.columns, call.columns_mapping)
            IN  /\ other.err = result.err
                /\ result.err = "none" =>
                       /\ other.query = result.query
                       /\ DOMAIN other.parameters = DOMAIN result.parameters

\* C21's case: an And of two Leaves with three one-parameter filters converted to
\* a query, and the values changed do change the parameter mapping.
C21_Witness ==
    /\ pc = "converted" /\ result.err = "none"
    /\ criteria.kind = "AndCriteria"
    /\ Len(LeafFilters(criteria)) = 3
    /\ DOMAIN result.parameters = {0, 1, 2}
    /\ Convert(Revalued(criteria, {1, 3}, 0), call.table, call.columns,
               call.columns_mapping).parameters # result.parameters

\* The outcome of a call: the boolean returned, or the fact that it raised.
Outcome(r) == IF r.err # "none" THEN "raised" ELSE IF r.val THEN "true" ELSE "false"

\* The And / Or node c with its operands exchanged.
Swapped(c) == [c EXCEPT !.left = c.right, !.right = c.left]

\* Whether one operand of the And / Or node c raises against obj while the other,
\* evaluated alone, gives the boolean that settles the node (False for And, True
\* for Or).
OrderDecides(obj, c) ==
    LET settling == IF c.kind = "AndCriteria" THEN "false" ELSE "true"
        left == Outcome(ValidateObject(obj, c.left))
        right == Outcome(ValidateObject(obj, c.right))
    IN  \/ left = "raised" /\ right = settling
        \/ right = "raised" /\ left = settling

\* C22 as claimed: validate_object has the same outcome for a & b and b & a, and
\* for a | b and b | a, for every record and all a, b.
C22_AndOrCommute ==
    (pc = "validated" /\ criteria.kind \in {"AndCriteria", "OrCriteria"}) =>
        Outcome(ValidateObject(call.obj, Swapped(criteria))) = Outcome(result)

\* C22 amended: the outcomes are the same unless one operand raises and the other
\* alone gives the settling boolean; then one order returns that boolean and the
\* other raises.
C22_AndOrCommuteUnlessOrderDecides ==
    (pc = "validated" /\ criteria.kind \in {"AndCriteria", "OrCriteria"}) =>
        LET swapped == Outcome(ValidateObject(call.obj, Swapped(criteria)))
        IN  IF OrderDecides(call.obj, criteria)
            THEN {swapped, Outcome(result)} =
                     {"raised", IF criteria.kind = "AndCriteria" THEN "false" ELSE "true"}
            ELSE swapped = Outcome(result)

\* C22's case: an And whose operands give different booleans, neither raising,
\* validated False in an order where the left operand is the True one.
C22_Witness ==
    /\ pc = "validated" /\ criteria.kind = "AndCriteria"
    /\ ValidateObject(call.obj, criteria.left) = Returned(TRUE)
    /\ ValidateObject(call.obj, criteria.right) = Returned(FALSE)
    /\ result = Returned(FALSE)

\* The fragments of filters[from..], each with its field mapped and its first
\* placeholder numbered where the filter before it left off, one after the other
\* with nothing in between; n is the number the first of them starts at.
RECURSIVE ConcatenatedFragments(_, _, _)
ConcatenatedFragments(filters, from, n) ==
    IF from > Len(filters) THEN << >>
    ELSE ExpectedFragment(filters[from].operator,
                          DictGet(MappingOfCall, filters[from].field, filters[from].field),
                          n)
         \o ConcatenatedFragments(filters, from + 1, n + ParameterCount(filters[from]))

\* C23: a Leaf of k >= 2 filters compiles to its k per-filter fragments
\* concatenated in insertion order with nothing between them, the parameter slots
\* of each filter starting where the previous filter's ended.
C23_LeafConcatenatesFragments ==
    (pc = "converted" /\ criteria.kind = "Criteria" /\ Len(criteria.filters) >= 2) =>
        /\ result.err = "none"
        /\ result.query = SelectOfCall \o << Txt(" WHERE ") >>
                          \o ConcatenatedFragments(criteria.filters, 1, 0)
                          \o << Txt(";") >>
        /\ DOMAIN result.parameters = 0..(SumParameterCounts(criteria.filters) - 1)

\* C24: whenever neither validate_object nor validate_object_with_messages raises
\* on a record and an expression, the is_valid flag of the second is the boolean
\* of the first.
C24_FlagIsValidateObject ==
    (pc = "validated_with_messages" /\ result.err = "none"
         /\ ValidateObject(call.obj, criteria).err = "none") =>
        result.val = ValidateObject(call.obj, criteria).val

\* C24's case: an Or under a Not, the Or's left operand failed and its right one
\* met by the record, so that the flag is the negation of a disjunction.
C24_Witness ==
    /\ pc = "validated_with_messages" /\ result = [err |-> "none", val |-> FALSE,
                                                    errors |-> << >>]
    /\ criteria.kind = "NotCriteria" /\ criteria.criteria.kind = "OrCriteria"
    /\ ValidateObject(call.obj, criteria.criteria.left) = Returned(FALSE)
    /\ ValidateObject(call.obj, criteria.criteria.right) = Returned(TRUE)

\* C25: validate_object_with_messages returns is_valid true iff the list of
\* messages it returns is empty, for every record and expression.
C25_ValidIffNoMessages ==
    (pc = "validated_with_messages" /\ result.err = "none") =>
        (result.val <=> result.errors = << >>)

\* Whether the text has an operand place with nothing in it: an opening '(' or
\* 'NOT (' or a connective directly followed by a connective or by ')'.
HasEmptyOperand(text) ==
    \E k \in 1..(Len(text) - 1) :
        /\ text[k] \in {Txt("("), Txt("NOT ("), Txt(" AND "), Txt(" OR ")}
        /\ text[k + 1] \in {Txt(" AND "), Txt(" OR "), Txt(")")}

\* C26: whenever convert emits a WHERE clause, for an expression whose
\* has_filters() is true, every operand of an AND or OR and the operand of every
\* NOT ( ) in it is a non-empty condition, also when some Leaf has no filters.
C26_OperandsNotEmpty ==
    (pc = "converted" /\ result.err = "none" /\ HasFilters(criteria)) =>
        ~HasEmptyOperand(result.query)

====
